---- MODULE Spec2Model ----
(***************************************************************************)
(* A model of github.com/askeladdk/toolbox.                                *)
(*                                                                         *)
(* Part 1: package bloom, the blocked bloom filter (bloom/bloom.go).       *)
(*   A uint64 word is the set of its one-bit positions (0..63), so that    *)
(*   x|y is a union and x&z == z is a subset test.  A uint32 is a pair     *)
(*   <<hi, lo>> of 16-bit limbs and all uint32 arithmetic is done on the   *)
(*   limbs, modulo 2^32.  Every atomic memory access is one step.          *)
(* Part 2: package queue, the ring-buffer queue (queue/queue.go).          *)
(* Part 3: package disjoint, the union-find set (disjoint/disjoint.go).    *)
(* Part 4: package sparse, the sparse set and map (sparse/set.go, map.go). *)
(* Part 5: package sparsebits, the sparse bit set (sparsebits.go).         *)
(* Part 6: package xslices, Select (xslices/sort.go).                      *)
(* Part 7: package murmurhash3, the streaming digest (murmurhash3.go).     *)
(*                                                                         *)
(* Specifications: Spec, SpecFair and SpecShared run the filter methods on *)
(* concurrent threads; SpecWorkers runs concurrent Adds of a partition of  *)
(* the keys; SpecSeq and SpecSizes run one caller, the latter on filters   *)
(* of several sizes; SpecLen runs Len on filters whose words were stored   *)
(* directly; SpecEstimate runs Estimate and NewWithEstimate; SpecQueue and *)
(* SpecGrow run the queue; SpecDisjoint runs the disjoint set; SpecSparse  *)
(* and SpecMap run the sparse set and the sparse map.  SpecGain runs every *)
(* filter method but Reset on concurrent threads, SpecRace concurrent      *)
(* TestAndAdds of one key, SpecReset a Reset beside an Add, and            *)
(* SpecSuspend the filter methods with a thread that may stop for ever.    *)
(* SpecBits runs the sparse bit set, SpecSelect one Select call, and       *)
(* SpecDigest the Writes to a murmurhash3 digest.                          *)
(***************************************************************************)
EXTENDS Integers, Sequences, FiniteSets, TLC

VARIABLES
    filt,     \* filt[F][i]: word i of filter F (a set of bit positions)
    th,       \* th[t]: the call thread t is executing and its locals
    ncalls,   \* ncalls[t]: number of calls thread t has made
    budget,   \* number of calls each thread may make
    todo,     \* todo[t]: keys thread t still has to add (worker runs)
    done,     \* done[F]: keys whose Add/TestAndAdd on F has returned
    begun,    \* begun[F]: keys whose Add/TestAndAdd on F has been called
    ubegun,   \* ubegun[F]: filters G for which F.UnionWith(G) has been called
    via,      \* via[F]: keys a UnionWith that has returned brought into F
    seq,      \* TRUE in a run of a single caller
    pre,      \* in such a run, the filters as they were at the last call
    lastcall, \* in such a run, the last call that returned and its result
    keys,     \* the keys the callers pass
    msize,    \* msize[F]: the m of the New(m) that made filter F
    q,        \* the queue: [elem, head, tail]
    qver,     \* which wraparound the queue is built with
    qhist,    \* the elements pushed and not yet popped, oldest first
    qout,     \* what the last queue call returned
    qn,       \* number of Push calls made
    qpops,    \* number of Pop calls that returned an element
    est,      \* the arguments and results of Estimate and NewWithEstimate
    ds,       \* the disjoint Set: ds[i] is the value of node i
    dsg,      \* dsg[i]: the nodes the Unions made so far have grouped with i
    dsu,      \* number of Union calls that returned true
    dsout,    \* the last call on the disjoint Set, its result, ds and dsg
              \* before it
    ss,       \* the sparse Set: [E, dense, sparse]
    ssm,      \* the keys added to ss and not deleted or reset since
    ssout,    \* the last call on the sparse Set
    sm,       \* the sparse Map: [E, dense, sparse, values]
    smg,      \* smg[k]: the value last Set for key k and not deleted since
    smout,    \* the last call on the sparse Map
    sb,       \* the sparse bit set: [dat, mid, panic]
    sbref,    \* the reference bit array: the indices of its one bits
    sel,      \* the Select call: its arguments, locals and position
    mh,       \* the murmurhash3 digest: [h, n, head, tail]
    mhin,     \* the bytes written to the digest so far
    mhout     \* the last Write: the length of its p and what it returned

\* the variables of the parts other than the filter methods and the queue
dvars == <<ds, dsg, dsu, dsout>>
svars == <<ss, ssm, ssout>>
mvars == <<sm, smg, smout>>
bsvars == <<sb, sbref>>
hvars == <<mh, mhin, mhout>>
pvars == <<est, dvars, svars, mvars>>
rvars == <<bsvars, sel, hvars>>
ovars == <<pvars, rvars>>
cfg == <<budget, keys, seq, msize>>
fqvars == <<filt, th, ncalls, budget, keys, seq, msize, todo, done, begun,
            ubegun, via, pre, lastcall, q, qver, qhist, qout, qn, qpops>>
bqvars == <<fqvars, rvars>>
bvars == <<filt, th, ncalls, cfg, lastcall, todo, done, begun, ubegun, via, pre,
           ovars>>
qvars == <<q, qver, qhist, qout, qn, qpops, ovars>>
vars == <<filt, th, ncalls, budget, keys, seq, msize, todo, done, begun,
          ubegun, via, pre, lastcall, q, qver, qhist, qout, qn, qpops, est,
          ds, dsg, dsu, dsout, ss, ssm, ssout, sm, smg, smout,
          sb, sbref, sel, mh, mhin, mhout>>

----------------------------------------------------------------------------
(* Bounds *)

NThreads == 2
MaxCalls == 1
SharedCalls == 2
SeqCalls == 4
SizeCalls == 3
FilterBits == 512
InitCap == 2
MaxCap == 4
MaxPush == 7
MaxGrow == 3

Threads == 1..NThreads

----------------------------------------------------------------------------
(* uint32 arithmetic on 16-bit limbs <<hi, lo>> *)

W16 == 65536

add32(a, b) ==
    LET lo == a[2] + b[2]
        hi == a[1] + b[1] + (lo \div W16)
    IN  <<hi % W16, lo % W16>>

\* k*a mod 2^32 for a small multiplier k
mul32(k, a) ==
    LET lo == k * a[2]
        hi == k * a[1] + (lo \div W16)
    IN  <<hi % W16, lo % W16>>

shr16(a) == a[1]

shr31(a) == a[1] \div 32768

\* a % n for 0 < n < 2^15
mod32(a, n) == ((a[1] % n) * (W16 % n) + a[2]) % n

----------------------------------------------------------------------------
(* Keys: uint64 values [hi |-> high 32 bits, lo |-> low 32 bits] *)

u32(hi, lo) == <<hi, lo>>

KA == [hi |-> u32(0, 0),     lo |-> u32(0, 0)]      \* 0x0000000000000000
KB == [hi |-> u32(0, 0),     lo |-> u32(32, 0)]     \* 0x0000000000200000
KC == [hi |-> u32(32, 0),    lo |-> u32(0, 0)]      \* 0x0020000000000000
KD == [hi |-> u32(32769, 65535), lo |-> u32(5, 3)]  \* 0x8001FFFF00050003

KE == [hi |-> u32(49153, 1), lo |-> u32(7, 9)]      \* 0xC001000100070009

Keys == {KA, KB, KC, KD}

\* the keys of the runs on filters of several sizes: KE addresses the second
\* block of a filter of two blocks
SizeKeys == {KA, KD, KE}

\* the keys of the concurrent runs: KC's bits are those of KA and KB together
SharedKeys == {KA, KC}

----------------------------------------------------------------------------
(* Addressing: splithash, sectors, bitmasks *)

splithash(h) == [h0 |-> h.lo, h1 |-> h.hi]

\* shifting by 30 instead of 31: an offset of 0..3 words
sectorsWide(h0, h1, n) ==
    LET r  == mod32(h0, n)
        bl == r - (r % 8)
    IN  << bl + 0 + (mul32(1, h1)[1] \div 16384),
           bl + 2 + (mul32(2, h1)[1] \div 16384),
           bl + 4 + (mul32(3, h1)[1] \div 16384),
           bl + 6 + (mul32(4, h1)[1] \div 16384) >>

\* the offset bit of s0 used for all four sectors
sectorsOneParity(h0, h1, n) ==
    LET r  == mod32(h0, n)
        bl == r - (r % 8)
    IN  << bl + 0 + shr31(h1), bl + 2 + shr31(h1),
           bl + 4 + shr31(h1), bl + 6 + shr31(h1) >>

\* bl := (h0 % n) &^ 7; s_j = bl + 2j + ((j+1)*h1)>>31
sectors(h0, h1, n) ==
    LET r  == mod32(h0, n)
        bl == r - (r % 8)
    IN  << bl + 0 + shr31(mul32(1, h1)),
           bl + 2 + shr31(mul32(2, h1)),
           bl + 4 + shr31(mul32(3, h1)),
           bl + 6 + shr31(mul32(4, h1)) >>

\* the shift count without the & 63
bitoffUnmasked(h0, h1, k) == shr16(add32(h0, mul32(k, h1)))

\* ((h0 + k*h1) >> 16) & 63
bitoff(h0, h1, k) == shr16(add32(h0, mul32(k, h1))) % 64

bitmasks(h0, h1) ==
    << {bitoff(h0, h1, 1), bitoff(h0, h1, 2)},
       {bitoff(h0, h1, 3), bitoff(h0, h1, 4)},
       {bitoff(h0, h1, 5), bitoff(h0, h1, 6)},
       {bitoff(h0, h1, 7), bitoff(h0, h1, 8)} >>

----------------------------------------------------------------------------
(* Filters *)

FilterIds == {"f", "g"}

\* the arguments m of New(m): no bits, one bit, a whole block, a block and
\* one bit
Sizes == {0, 1, FilterBits, FilterBits + 1}

\* rounding down to whole blocks: (m / 512) * 8 words
NewTrunc(m) == [i \in 0..(((m \div 512) * 8) - 1) |-> {}]

\* one word for every 64 bits, not rounded up to whole blocks
NewWords(m) == [i \in 0..(((m + 63) \div 64) - 1) |-> {}]

\* New(m): ((m + 511) / 512) * 8 zero words, indexed from 0
New(m) == [i \in 0..((((m + 511) \div 512) * 8) - 1) |-> {}]

len(F) == Cardinality(DOMAIN filt[F])

\* f.Bits(): len(f) * 64
Bits(F) == len(F) * 64

\* the four sector indices and the four masks of key x in a filter of n words
keysectors(x, n) == sectors(splithash(x).h0, splithash(x).h1, n)
keymasks(x) == bitmasks(splithash(x).h0, splithash(x).h1)

\* a comparison that accepts a word holding any bit of its mask: m&z != 0
allmaskedAny(m, z) == \A j \in 1..4 : z[j] \cap m[j] # {}

\* m0&z0 == z0 && m1&z1 == z1 && m2&z2 == z2 && m3&z3 == z3
allmasked(m, z) == \A j \in 1..4 : z[j] \subseteq m[j]

\* a store in place of the compare-and-swap: it always succeeds
casBlind(cur, old) == TRUE

\* a compare-and-swap that always fails
casNever(cur, old) == FALSE

\* atomic.CompareAndSwapUint64(addr, old, new) succeeds iff *addr == old
casSucceeds(cur, old) == cur = old

\* a test that never finds the mask in the word
hasBitsNever(old, z) == FALSE

\* old&z == z: the word already holds the mask and atomicSetBits returns
hasBits(old, z) == z \subseteq old

\* swapping in the mask alone
casNewMaskOnly(old, z) == z

\* the value atomicSetBits swaps in: old|z
casNew(old, z) == old \cup z

\* f.atomicSetBits(s, z) with no other thread running: f[s] |= z
setBits(f, s, z) == [f EXCEPT ![s] = @ \cup z]

\* f.Add(x) with no other thread running
addTo(f, x) ==
    LET s == keysectors(x, Cardinality(DOMAIN f))
        z == keymasks(x)
    IN  setBits(setBits(setBits(setBits(f, s[1], z[1]), s[2], z[2]),
                        s[3], z[3]), s[4], z[4])

\* f.Test(x) with no other thread running
testIn(f, x) ==
    LET s == keysectors(x, Cardinality(DOMAIN f))
    IN  allmasked(<<f[s[1]], f[s[2]], f[s[3]], f[s[4]]>>, keymasks(x))

\* the keys of the sequence ks added to f one after the other
RECURSIVE addAll(_, _)
addAll(f, ks) == IF ks = <<>> THEN f ELSE addAll(addTo(f, Head(ks)), Tail(ks))

----------------------------------------------------------------------------
(* Threads.  th[t] is the activation record of the call thread t runs:     *)
(*   op   the method, "idle" between calls                                 *)
(*   pc   the next memory access of the method                             *)
(*   f,g  receiver and argument filter                                     *)
(*   x    the key                                                          *)
(*   i    slot 1..4 of a key operation, word index of a scan               *)
(*   z    the mask of the atomicSetBits call in progress (UnionWith)       *)
(*   old  the value atomicSetBits loaded                                   *)
(*   m    m0..m3 of Test and TestAndAdd; m[1] is the f word of Equal       *)
(*   ones the bit count Len has accumulated for the current block          *)
(*   n    Len: ones of each non-empty block, the terms of the sum n        *)
(*   res  the result                                                       *)
(*   hb   whether an Add/TestAndAdd of x on f had returned at the call     *)
(*   dg   the keys g held at the call (UnionWith)                          *)
(*   acc  the kind of the last memory access the call made                 *)
(*   s    s0..s3 of a key operation, computed when the call starts         *)
(*   ws   the words of f an Add, Test or TestAndAdd has accessed so far    *)
(*   len  what Len returns: math.MaxInt (max) or the int val               *)
(*   cov  whether f held every bit of x when the Test was called          *)

NoM == <<{}, {}, {}, {}>>

IdleRec == [op |-> "idle", pc |-> "idle", f |-> "f", g |-> "f", x |-> KA,
            i |-> 0, z |-> {}, old |-> {}, m |-> NoM, ones |-> 0,
            n |-> <<>>, res |-> FALSE, hb |-> FALSE, dg |-> {},
            acc |-> "none", s |-> <<0, 0, 0, 0>>, ws |-> {},
            len |-> [max |-> FALSE, val |-> 0], cov |-> FALSE]

\* no call has returned yet
NoCall == [op |-> "none", f |-> "f", g |-> "f", x |-> KA, res |-> FALSE]

\* the word and mask of the atomicSetBits call thread record r is in
asbWord(r) == IF r.op = "UnionWith" THEN r.i ELSE r.s[r.i]
asbMask(r) == IF r.op = "UnionWith" THEN r.z ELSE keymasks(r.x)[r.i]

KeyOps == {"Add", "Test", "TestAndAdd"}

\* record r after a memory access of the given kind; a key operation
\* accesses the word of its slot r.i
Access(r, kind) ==
    [r EXCEPT !.acc = kind,
              !.ws = IF r.op \in KeyOps
                       THEN @ \cup {r.s[r.i]}
                       ELSE @]

\* a panic ends the program: no thread runs once one has panicked
Panicked == \E u \in Threads : th[u].pc = "panic"

At(t, pc) == th[t].pc = pc /\ ~Panicked

CanCall(t) == At(t, "idle") /\ ncalls[t] < budget

\* a key operation first computes s0..s3; sectors computes h0 % n: a filter
\* of no words makes the call panic (integer divide by zero) before any word
\* is touched
Start(t, r) ==
    /\ th' = [th EXCEPT ![t] =
                 IF r.op \in KeyOps
                   THEN IF len(r.f) = 0
                          THEN [r EXCEPT !.pc = "panic"]
                          ELSE [r EXCEPT !.s = keysectors(r.x, len(r.f))]
                   ELSE r]
    /\ ncalls' = [ncalls EXCEPT ![t] = @ + 1]
    /\ pre' = IF seq THEN filt ELSE pre

\* F.Add(x): the first atomicSetBits is about to load
AddCall(t, F) ==
    /\ CanCall(t)
    /\ \E x \in keys :
         /\ Start(t, [IdleRec EXCEPT !.op = "Add", !.pc = "load", !.f = F,
                                     !.x = x, !.i = 1])
         /\ begun' = [begun EXCEPT ![F] = @ \cup {x}]
    /\ UNCHANGED <<filt, cfg, lastcall, todo, via, done, ubegun, qvars>>

\* f.Add(x)
CallAdd(t) == AddCall(t, "f")

\* g.Add(x), on the filter that is the argument of f.UnionWith and f.Equal
CallAddG(t) == AddCall(t, "g")

CallTest(t) ==
    /\ CanCall(t)
    /\ \E x \in keys :
         Start(t, [IdleRec EXCEPT !.op = "Test", !.pc = "tload", !.x = x,
                                  !.i = 1, !.hb = (x \in done["f"]),
                                  !.cov = (len("f") > 0
                                             /\ testIn(filt["f"], x))])
    /\ UNCHANGED <<filt, cfg, lastcall, todo, via, done, begun, ubegun, qvars>>

CallTestAndAdd(t) ==
    /\ CanCall(t)
    /\ \E x \in keys :
         /\ Start(t, [IdleRec EXCEPT !.op = "TestAndAdd", !.pc = "load",
                                     !.x = x, !.i = 1,
                                     !.hb = (x \in done["f"])])
         /\ begun' = [begun EXCEPT !["f"] = @ \cup {x}]
    /\ UNCHANGED <<filt, cfg, lastcall, todo, via, done, ubegun, qvars>>

\* a UnionWith that never panics
unionPanicsNever(F, G) == FALSE

\* if len(f) != len(g) { panic(...) }
unionPanics(F, G) == len(F) # len(G)

\* f.UnionWith(g): panics when the lengths differ, else starts the loop
CallUnionWith(t) ==
    /\ CanCall(t)
    /\ Start(t, IF unionPanics("f", "g")
                  THEN [IdleRec EXCEPT !.op = "UnionWith", !.pc = "panic",
                                       !.g = "g"]
                  ELSE IF len("f") = 0
                  THEN [IdleRec EXCEPT !.op = "UnionWith", !.pc = "ret",
                                       !.g = "g"]
                  ELSE [IdleRec EXCEPT !.op = "UnionWith", !.pc = "read",
                                       !.g = "g",
                                       !.dg = done["g"] \cup via["g"]])
    /\ ubegun' = [ubegun EXCEPT !["f"] = @ \cup {"g"}]
    /\ UNCHANGED <<filt, cfg, lastcall, todo, via, done, begun, qvars>>

\* a Reset whose range starts at the second word
CallResetFromSecond(t) ==
    /\ CanCall(t)
    /\ Start(t, [IdleRec EXCEPT !.op = "Reset", !.i = 1,
                                !.pc = IF len("f") = 0 THEN "ret" ELSE "store"])
    /\ UNCHANGED <<filt, cfg, lastcall, todo, via, done, begun, ubegun, qvars>>

\* f.Reset(): the range starts at word 0
CallReset(t) ==
    /\ CanCall(t)
    /\ Start(t, [IdleRec EXCEPT !.op = "Reset",
                                !.pc = IF len("f") = 0 THEN "ret" ELSE "store"])
    /\ UNCHANGED <<filt, cfg, lastcall, todo, via, done, begun, ubegun, qvars>>

CallEmpty(t) ==
    /\ CanCall(t)
    /\ Start(t, [IdleRec EXCEPT !.op = "Empty", !.res = (len("f") = 0),
                                !.pc = IF len("f") = 0 THEN "ret" ELSE "eload"])
    /\ UNCHANGED <<filt, cfg, lastcall, todo, via, done, begun, ubegun, qvars>>

\* an Equal that compares the words whatever the lengths
lenDiffersNever(F, G) == FALSE

\* if len(f) != len(g) { return false }
lenDiffers(F, G) == len(F) # len(G)

\* F.Equal(G)
EqualCall(t, F, G) ==
    /\ CanCall(t)
    /\ Start(t, IF lenDiffers(F, G)
                  THEN [IdleRec EXCEPT !.op = "Equal", !.f = F, !.g = G,
                                       !.pc = "ret", !.res = FALSE]
                  ELSE IF len(F) = 0
                  THEN [IdleRec EXCEPT !.op = "Equal", !.f = F, !.g = G,
                                       !.pc = "ret", !.res = TRUE]
                  ELSE [IdleRec EXCEPT !.op = "Equal", !.f = F, !.g = G,
                                       !.pc = "qloadf"])
    /\ UNCHANGED <<filt, cfg, lastcall, todo, via, done, begun, ubegun, qvars>>

\* f.Equal(g)
CallEqual(t) == EqualCall(t, "f", "g")

\* Equal with any receiver and any argument: f.Equal(f), g.Equal(f), ...
CallEqualAny(t) == \E F, G \in FilterIds : EqualCall(t, F, G)

CallLen(t) ==
    /\ CanCall(t)
    /\ Start(t, [IdleRec EXCEPT !.op = "Len",
                                !.pc = IF len("f") = 0 THEN "ret" ELSE "lload"])
    /\ UNCHANGED <<filt, cfg, lastcall, todo, via, done, begun, ubegun, qvars>>

----------------------------------------------------------------------------
(* atomicSetBits: for { old = load; if old&z == z || CAS(old, old|z) return } *)

\* returning the word after the update instead of before it
setBitsResultNew(old, z) == old \cup z

\* the value atomicSetBits returns: old, the word before the update
setBitsResult(old, z) == old

\* retrying the compare-and-swap without loading the word again
retryNoReload(r) == [r EXCEPT !.pc = "cas"]

\* a failed compare-and-swap: the loop starts over with a fresh load
retry(r) == [r EXCEPT !.pc = "load", !.old = {}]

\* what the caller does with the value old that atomicSetBits returned
afterSetBits(r, old) ==
    CASE r.op = "Add" ->
           IF r.i < 4
             THEN [r EXCEPT !.pc = "load", !.i = r.i + 1, !.old = {}]
             ELSE [r EXCEPT !.pc = "ret", !.old = {}]
      [] r.op = "TestAndAdd" ->
           LET m == [r.m EXCEPT ![r.i] = old]
           IN  IF r.i < 4
                 THEN [r EXCEPT !.pc = "load", !.i = r.i + 1, !.old = {},
                                !.m = m]
                 ELSE [r EXCEPT !.pc = "ret", !.old = {}, !.m = m,
                                !.res = allmasked(m, keymasks(r.x))]
      [] r.op = "UnionWith" ->
           IF r.i + 1 < len(r.f)
             THEN [r EXCEPT !.pc = "read", !.i = r.i + 1, !.old = {},
                            !.z = {}]
             ELSE [r EXCEPT !.pc = "ret", !.old = {}, !.z = {}]

\* old = atomic.LoadUint64(&f[s]); if old&z == z { return }
SetBitsLoad(t) ==
    LET r   == Access(th[t], "atomic load")
        s   == asbWord(r)
        old == filt[r.f][s]
    IN  /\ At(t, "load")
        /\ th' = [th EXCEPT ![t] =
                     IF hasBits(old, asbMask(r))
                       THEN afterSetBits(r, setBitsResult(old, asbMask(r)))
                       ELSE [r EXCEPT !.pc = "cas", !.old = old]]
        /\ UNCHANGED <<filt, ncalls, pre, cfg, lastcall, todo, done, begun, ubegun, via, qvars>>

\* atomic.CompareAndSwapUint64(&f[s], old, old|z): return on success, else loop
SetBitsCAS(t) ==
    LET r == Access(th[t], "atomic cas")
        s == asbWord(r)
    IN  /\ At(t, "cas")
        /\ IF casSucceeds(filt[r.f][s], r.old)
             THEN /\ filt' = [filt EXCEPT ![r.f][s] = casNew(r.old, asbMask(r))]
                  /\ th' = [th EXCEPT ![t] =
                               afterSetBits(r, setBitsResult(r.old, asbMask(r)))]
             ELSE /\ filt' = filt
                  /\ th' = [th EXCEPT ![t] = retry(r)]
        /\ UNCHANGED <<ncalls, pre, cfg, lastcall, todo, done, begun, ubegun, via, qvars>>

----------------------------------------------------------------------------
(* Test: four atomic loads, then the comparison *)

TestLoad(t) ==
    LET r == Access(th[t], "atomic load")
        s == r.s[r.i]
        m == [r.m EXCEPT ![r.i] = filt[r.f][s]]
    IN  /\ At(t, "tload")
        /\ th' = [th EXCEPT ![t] =
                     IF r.i < 4
                       THEN [r EXCEPT !.i = r.i + 1, !.m = m]
                       ELSE [r EXCEPT !.pc = "ret", !.m = m,
                                      !.res = allmasked(m, keymasks(r.x))]]
        /\ UNCHANGED <<filt, ncalls, pre, cfg, lastcall, todo, done, begun, ubegun, via, qvars>>

----------------------------------------------------------------------------
(* UnionWith: for i := range f { f.atomicSetBits(uint32(i), g[i]) }        *)
(* g[i] is a plain (non-atomic) read.  It reads the word in one access, or *)
(* where a uint64 takes two machine loads, one half and then the other.    *)

LoHalf == 0..31
HiHalf == 32..63

UnionRead(t) ==
    LET r == Access(th[t], "plain read")
        w == filt[r.g][r.i]
    IN  /\ \/ At(t, "read") /\ \E nxt \in {"load", "readhi", "readlo"} :
                th' = [th EXCEPT ![t] =
                         [r EXCEPT !.pc = nxt,
                                   !.z = CASE nxt = "load"   -> w
                                           [] nxt = "readhi" -> w \cap LoHalf
                                           [] nxt = "readlo" -> w \cap HiHalf]]
           \/ At(t, "readhi") /\
                th' = [th EXCEPT ![t] =
                         [r EXCEPT !.pc = "load", !.z = r.z \cup (w \cap HiHalf)]]
           \/ At(t, "readlo") /\
                th' = [th EXCEPT ![t] =
                         [r EXCEPT !.pc = "load", !.z = r.z \cup (w \cap LoHalf)]]
        /\ UNCHANGED <<filt, ncalls, pre, cfg, lastcall, todo, done, begun, ubegun, via, qvars>>

----------------------------------------------------------------------------
(* Reset, Empty, Equal, Len: word by word *)

\* atomic.StoreUint64(&f[i], 0)
ResetStore(t) ==
    LET r == Access(th[t], "atomic store")
    IN  /\ At(t, "store")
        /\ filt' = [filt EXCEPT ![r.f][r.i] = {}]
        /\ th' = [th EXCEPT ![t] =
                     IF r.i + 1 < len(r.f)
                       THEN [r EXCEPT !.i = r.i + 1]
                       ELSE [r EXCEPT !.pc = "ret"]]
        /\ UNCHANGED <<ncalls, pre, cfg, lastcall, todo, done, begun, ubegun, via, qvars>>

\* a range that ends with the first block
moreWordsInBlock(r) == r.i + 1 < 8

\* for i := range f: there is a word after word i
moreWords(r) == r.i + 1 < len(r.f)

\* if atomic.LoadUint64(&f[i]) != 0 { return false }
EmptyLoad(t) ==
    LET r == Access(th[t], "atomic load")
    IN  /\ At(t, "eload")
        /\ th' = [th EXCEPT ![t] =
                     IF filt[r.f][r.i] # {}
                       THEN [r EXCEPT !.pc = "ret", !.res = FALSE]
                       ELSE IF moreWords(r)
                       THEN [r EXCEPT !.i = r.i + 1]
                       ELSE [r EXCEPT !.pc = "ret", !.res = TRUE]]
        /\ UNCHANGED <<filt, ncalls, pre, cfg, lastcall, todo, done, begun, ubegun, via, qvars>>

\* atomic.LoadUint64(&f[i]) != atomic.LoadUint64(&g[i]): f[i] is loaded first
EqualLoad(t) ==
    LET r == Access(th[t], "atomic load")
    IN  /\ \/ /\ At(t, "qloadf")
              /\ th' = [th EXCEPT ![t] =
                          [r EXCEPT !.pc = "qloadg", !.m[1] = filt[r.f][r.i]]]
           \/ /\ At(t, "qloadg")
              /\ th' = [th EXCEPT ![t] =
                          IF r.m[1] # filt[r.g][r.i]
                            THEN [r EXCEPT !.pc = "ret", !.res = FALSE,
                                           !.m = NoM]
                            ELSE IF r.i + 1 < len(r.f)
                            THEN [r EXCEPT !.pc = "qloadf", !.i = r.i + 1,
                                           !.m = NoM]
                            ELSE [r EXCEPT !.pc = "ret", !.res = TRUE,
                                           !.m = NoM]]
        /\ UNCHANGED <<filt, ncalls, pre, cfg, lastcall, todo, done, begun, ubegun, via, qvars>>

\* The float64 n of Len is [inf, v]: minus infinity, or the number v / 10^6.
\* Log1pTable[ones] is -math.Log1p(-ones/512) * 10^6 rounded to the nearest
\* integer, for ones = 1..511; math.Log1p(-1) is minus infinity.
Micro == 1000000

Log1pTable == <<
    1955, 3914, 5877, 7843, 9814, 11788, 13766, 15748,
    17734, 19725, 21719, 23717, 25719, 27725, 29735, 31749,
    33767, 35789, 37815, 39846, 41880, 43919, 45962, 48009,
    50061, 52116, 54176, 56240, 58308, 60381, 62457, 64539,
    66624, 68714, 70808, 72907, 75010, 77117, 79229, 81346,
    83467, 85592, 87722, 89856, 91995, 94139, 96287, 98440,
    100598, 102760, 104927, 107098, 109274, 111455, 113641, 115832,
    118027, 120227, 122432, 124642, 126857, 129077, 131302, 133531,
    135766, 138006, 140250, 142500, 144755, 147015, 149280, 151550,
    153825, 156106, 158391, 160682, 162979, 165280, 167587, 169899,
    172217, 174539, 176868, 179201, 181541, 183885, 186235, 188591,
    190952, 193319, 195692, 198070, 200454, 202843, 205238, 207639,
    210046, 212459, 214877, 217301, 219731, 222167, 224609, 227057,
    229511, 231971, 234438, 236910, 239388, 241873, 244363, 246860,
    249363, 251873, 254388, 256910, 259439, 261974, 264515, 267063,
    269617, 272178, 274745, 277319, 279900, 282487, 285081, 287682,
    290290, 292904, 295525, 298153, 300788, 303430, 306079, 308735,
    311399, 314069, 316746, 319431, 322123, 324822, 327528, 330242,
    332963, 335691, 338427, 341171, 343922, 346680, 349447, 352221,
    355002, 357792, 360589, 363394, 366207, 369028, 371857, 374693,
    377538, 380391, 383253, 386122, 389000, 391886, 394780, 397683,
    400594, 403514, 406442, 409379, 412325, 415279, 418242, 421213,
    424194, 427184, 430182, 433190, 436206, 439232, 442267, 445311,
    448364, 451427, 454499, 457581, 460672, 463773, 466884, 470004,
    473134, 476273, 479423, 482582, 485752, 488932, 492121, 495321,
    498532, 501752, 504983, 508225, 511477, 514740, 518013, 521297,
    524592, 527898, 531214, 534542, 537881, 541231, 544592, 547965,
    551349, 554745, 558152, 561571, 565001, 568444, 571898, 575364,
    578842, 582333, 585835, 589350, 592878, 596418, 599970, 603535,
    607113, 610704, 614307, 617924, 621554, 625197, 628853, 632523,
    636206, 639903, 643613, 647338, 651076, 654828, 658595, 662376,
    666171, 669980, 673804, 677643, 681497, 685365, 689249, 693147,
    697061, 700990, 704935, 708896, 712872, 716864, 720872, 724896,
    728936, 732993, 737066, 741156, 745263, 749387, 753528, 757686,
    761861, 766054, 770264, 774493, 778739, 783004, 787286, 791587,
    795907, 800245, 804603, 808979, 813375, 817790, 822224, 826679,
    831153, 835647, 840162, 844697, 849253, 853830, 858427, 863046,
    867687, 872349, 877032, 881738, 886466, 891217, 895990, 900787,
    905606, 910448, 915315, 920205, 925119, 930057, 935020, 940007,
    945020, 950058, 955121, 960210, 965325, 970466, 975634, 980829,
    986051, 991301, 996578, 1001883, 1007216, 1012578, 1017969, 1023389,
    1028838, 1034318, 1039828, 1045368, 1050939, 1056541, 1062175, 1067841,
    1073539, 1079269, 1085033, 1090830, 1096661, 1102526, 1108426, 1114361,
    1120331, 1126337, 1132379, 1138458, 1144574, 1150728, 1156920, 1163151,
    1169420, 1175730, 1182079, 1188469, 1194900, 1201372, 1207887, 1214444,
    1221045, 1227689, 1234378, 1241112, 1247892, 1254718, 1261591, 1268511,
    1275480, 1282498, 1289565, 1296682, 1303851, 1311071, 1318344, 1325670,
    1333050, 1340485, 1347975, 1355523, 1363127, 1370790, 1378512, 1386294,
    1394138, 1402043, 1410011, 1418043, 1426140, 1434304, 1442534, 1450833,
    1459201, 1467640, 1476151, 1484734, 1493392, 1502126, 1510937, 1519826,
    1528794, 1537844, 1546977, 1556193, 1565496, 1574886, 1584364, 1593934,
    1603596, 1613352, 1623204, 1633154, 1643205, 1653357, 1663614, 1673976,
    1684448, 1695030, 1705725, 1716536, 1727465, 1738515, 1749688, 1760988,
    1772417, 1783977, 1795673, 1807508, 1819484, 1831605, 1843875, 1856298,
    1868877, 1881616, 1894519, 1907591, 1920837, 1934260, 1947865, 1961659,
    1975645, 1989829, 2004218, 2018817, 2033632, 2048670, 2063937, 2079442,
    2095190, 2111190, 2127451, 2143980, 2160787, 2177882, 2195273, 2212973,
    2230991, 2249341, 2268033, 2287081, 2306499, 2326302, 2346504, 2367124,
    2388177, 2409683, 2431662, 2454135, 2477125, 2500655, 2524753, 2549445,
    2574763, 2600738, 2627407, 2654806, 2682977, 2711964, 2741817, 2772589,
    2804337, 2837127, 2871029, 2906120, 2942488, 2980228, 3019449, 3060271,
    3102830, 3147282, 3193802, 3242592, 3293886, 3347953, 3405111, 3465736,
    3530274, 3599267, 3673375, 3753418, 3840429, 3935740, 4041100, 4158883,
    4292414, 4446565, 4628887, 4852030, 5139712, 5545177, 6238325
>>

\* a logarithm that is finite for every argument
log1pFinite(ones) ==
    [inf |-> FALSE, v |-> -Log1pTable[IF ones > 511 THEN 511 ELSE ones]]

\* math.Log1p(-float64(ones) / blockbits), 1 <= ones <= 512
log1p(ones) ==
    IF ones = 512 THEN [inf |-> TRUE, v |-> 0]
                  ELSE [inf |-> FALSE, v |-> -Log1pTable[ones]]

\* a + b in float64: minus infinity plus a finite number is minus infinity
fadd(a, b) ==
    IF a.inf \/ b.inf THEN [inf |-> TRUE, v |-> 0]
                      ELSE [inf |-> FALSE, v |-> a.v + b.v]

\* n after n += log1p(-ones/512) for the blocks ones[1..k], from n = 0
RECURSIVE fsum(_, _)
fsum(ones, k) ==
    IF k = 0 THEN [inf |-> FALSE, v |-> 0]
             ELSE fadd(fsum(ones, k - 1), log1p(ones[k]))

\* if n == math.Inf(-1) { return math.MaxInt }
\* return int(-(blockbits / k) * n): the conversion truncates toward zero
lenResult(ones) ==
    LET n == fsum(ones, Len(ones))
    IN  IF n.inf THEN [max |-> TRUE, val |-> 0]
                 ELSE [max |-> FALSE, val |-> (64 * (-n.v)) \div Micro]

\* ones += bits.OnesCount64(atomic.LoadUint64(&f[i+k])), k = 0..7; a block
\* with ones != 0 adds the term log1p(-ones/512) to n
LenLoad(t) ==
    LET r    == Access(th[t], "atomic load")
        ones == r.ones + Cardinality(filt[r.f][r.i])
        last == r.i % 8 = 7
        n    == IF last /\ ones # 0 THEN Append(r.n, ones) ELSE r.n
    IN  /\ At(t, "lload")
        /\ th' = [th EXCEPT ![t] =
                     IF r.i + 1 < len(r.f)
                       THEN [r EXCEPT !.i = r.i + 1, !.n = n,
                                      !.ones = IF last THEN 0 ELSE ones]
                       ELSE [r EXCEPT !.pc = "ret", !.n = n, !.ones = 0,
                                      !.len = lenResult(n)]]
        /\ UNCHANGED <<filt, ncalls, pre, cfg, lastcall, todo, done, begun, ubegun, via, qvars>>

----------------------------------------------------------------------------
(* Return to the caller.  done, begun and ubegun record which calls have   *)
(* been made and have returned; a Reset that has returned starts them      *)
(* afresh.                                                                 *)

Return(t) ==
    LET r == th[t]
    IN  /\ At(t, "ret")
        /\ th' = [th EXCEPT ![t] = IdleRec]
        /\ done' = CASE r.op \in {"Add", "TestAndAdd"} ->
                          [done EXCEPT ![r.f] = @ \cup {r.x}]
                     [] r.op = "Reset" ->
                          [done EXCEPT ![r.f] = {}]
                     [] OTHER -> done
        /\ begun' = IF r.op = "Reset" THEN [begun EXCEPT ![r.f] = {}] ELSE begun
        /\ ubegun' = IF r.op = "Reset" THEN [ubegun EXCEPT ![r.f] = {}]
                                       ELSE ubegun
        /\ via' = CASE r.op = "UnionWith" -> [via EXCEPT ![r.f] = @ \cup r.dg]
                    [] r.op = "Reset" -> [via EXCEPT ![r.f] = {}]
                    [] OTHER -> via
        /\ lastcall' = IF seq THEN [op |-> r.op, f |-> r.f, g |-> r.g, x |-> r.x,
                                     res |-> r.res]
                             ELSE lastcall
        /\ UNCHANGED <<filt, ncalls, pre, cfg, todo, qvars>>

----------------------------------------------------------------------------
(* Worker runs: the keys are partitioned among the threads and each thread *)
(* adds its own keys to the shared filter f.                               *)

WorkerAdd(t) ==
    /\ At(t, "idle")
    /\ \E x \in todo[t] :
         /\ th' = [th EXCEPT ![t] =
                      [IdleRec EXCEPT !.op = "Add", !.pc = "load", !.x = x,
                                      !.i = 1,
                                      !.s = keysectors(x, len("f"))]]
         /\ todo' = [todo EXCEPT ![t] = @ \ {x}]
         /\ begun' = [begun EXCEPT !["f"] = @ \cup {x}]
    /\ ncalls' = [ncalls EXCEPT ![t] = @ + 1]
    /\ UNCHANGED <<filt, pre, cfg, lastcall, done, ubegun, via, qvars>>

----------------------------------------------------------------------------
(* Package queue.  q.elem is a sequence (Go index k is position k + 1),    *)
(* the zero value of an element is 0 and the k-th Push pushes k.           *)

Max(a, b) == IF a >= b THEN a ELSE b
Min(a, b) == IF a <= b THEN a ELSE b

\* Go's %: the result has the sign of the dividend
rem(a, b) == IF a >= 0 THEN a % b ELSE -((-a) % b)

zeros(n) == [k \in 1..n |-> 0]

\* q.index(i)
index(qq, i) == rem(i, Len(qq.elem))

\* q.wraparound(i): queue.go has i % (2 * len(q.elem)); the later version
\* negates a negative i first
wraparound(qq, i) ==
    IF qver = "later" /\ i < 0
      THEN rem(-i, 2 * Len(qq.elem))
      ELSE rem(i, 2 * Len(qq.elem))

Empty(qq) == qq.head = qq.tail

QLen(qq) == IF Len(qq.elem) = 0 THEN 0 ELSE wraparound(qq, qq.head - qq.tail)

Cap(qq) == Len(qq.elem)

\* copy(e[off:], src)
copy(e, off, src) ==
    [k \in 1..Len(e) |->
        IF off < k /\ k <= off + Min(Len(src), Len(e) - off)
          THEN src[k - off] ELSE e[k]]

\* whether Grow(n) has to append: the queue has elements and fewer than n
\* free places
Grows(qq, n) ==
    Len(qq.elem) # 0 /\ Len(qq.elem) - wraparound(qq, qq.head - qq.tail) < n

\* the queue after q.Grow(n), n >= 0, when append returns capacity c
Grow(qq, n, c) ==
    LET size == Len(qq.elem)
        elem == qq.elem \o zeros(c - size)
        hi   == index(qq, qq.head)
        lo   == index(qq, qq.tail)
    IN  IF size = 0 THEN [qq EXCEPT !.elem = zeros(n)]
        ELSE IF ~Grows(qq, n) THEN qq
        ELSE IF hi <= lo
          THEN IF hi < size - lo
                 THEN LET tmp == SubSeq(elem, 1, hi)
                          e1  == copy(elem, 0, SubSeq(elem, lo + 1, size))
                          e2  == copy(e1, size - lo, tmp)
                      IN  [elem |-> e2, head |-> size, tail |-> 0]
                 ELSE LET tmp == SubSeq(elem, lo + 1, size)
                          e1  == copy(elem, size - lo, SubSeq(elem, 1, hi))
                          e2  == copy(e1, 0, tmp)
                      IN  [elem |-> e2, head |-> size, tail |-> 0]
          ELSE [qq EXCEPT !.elem = elem]

\* the capacities append(q.elem, make([]T, n)...) may return: the runtime
\* picks one that holds len + n elements, doubling a small slice
appendCaps(qq, n) ==
    {Len(qq.elem) + n, Max(2 * Len(qq.elem), Len(qq.elem) + n)}

\* q.Grow(1); q.elem[q.index(q.head)] = x; q.head = q.wraparound(q.head + 1)
Push ==
    /\ qn < MaxPush
    /\ \E c \in appendCaps(q, 1) :
         /\ Grows(q, 1) => c <= MaxCap
         /\ ~Grows(q, 1) => c = Len(q.elem) + 1
         /\ LET g == Grow(q, 1, c)
                x == qn + 1
            IN  q' = [g EXCEPT !.elem[index(g, g.head) + 1] = x,
                               !.head = wraparound(g, g.head + 1)]
    /\ qn' = qn + 1
    /\ qhist' = Append(qhist, qn + 1)
    /\ qout' = [op |-> "Push", val |-> qn + 1, want |-> qn + 1]
    /\ UNCHANGED <<qver, qpops, bvars>>

\* q.Grow(n) called by the user of the queue, n >= 0
GrowCall ==
    /\ \E n \in 0..MaxGrow : \E c \in appendCaps(q, n) :
         /\ Grows(q, n) => c <= MaxCap + MaxGrow
         /\ ~Grows(q, n) => c = Len(q.elem) + n
         /\ q' = Grow(q, n, c)
         /\ qout' = [op |-> "Grow", val |-> n, want |-> n]
    /\ UNCHANGED <<qn, qpops, qhist, qver, bvars>>

\* x := q.Peek(), which panics if q.Empty(); q.elem[q.index(q.tail)] = zeroval;
\* q.tail = q.wraparound(q.tail + 1); return x
Pop ==
    /\ IF Empty(q)
         THEN /\ qout' = [op |-> "panic", val |-> 0,
                          want |-> IF qhist = <<>> THEN 0 ELSE Head(qhist)]
              /\ UNCHANGED <<q, qhist, qpops>>
         ELSE /\ qout' = [op |-> "Pop", val |-> q.elem[index(q, q.tail) + 1],
                          want |-> IF qhist = <<>> THEN 0 ELSE Head(qhist)]
              /\ q' = [q EXCEPT !.elem[index(q, q.tail) + 1] = 0,
                                !.tail = wraparound(q, q.tail + 1)]
              /\ qhist' = IF qhist = <<>> THEN qhist ELSE Tail(qhist)
              /\ qpops' = qpops + 1
    /\ UNCHANGED <<qn, qver, bvars>>

----------------------------------------------------------------------------
(* Estimate and NewWithEstimate.  An int is 64 bits wide, two's complement, *)
(* written as four 16-bit limbs, most significant first.  A float64 that   *)
(* is too large for an int is converted to an int in a way that depends on *)
(* the build: est.conv says whether the build gives the smallest or the    *)
(* largest int.                                                            *)

\* the int v, 0 <= v < 2^31
i64(v) == <<0, 0, v \div W16, v % W16>>

MinInt64 == <<32768, 0, 0, 0>>
MaxInt64 == <<32767, 65535, 65535, 65535>>

\* an addition that was left out
add64None(a, k) == a

\* a + k modulo 2^64, 0 <= k < 2^16
add64(a, k) ==
    LET l4 == a[4] + k
        l3 == a[3] + (l4 \div W16)
        l2 == a[2] + (l3 \div W16)
        l1 == a[1] + (l2 \div W16)
    IN  <<l1 % W16, l2 % W16, l3 % W16, l4 % W16>>

\* a &^ 511
andnot511(a) == <<a[1], a[2], a[3], a[4] - (a[4] % 512)>>

negative64(a) == a[1] >= 32768

\* 0 <= a < 2^31: a number of bits make can allocate a filter for; it
\* panics for a negative length and for one that is out of range
small64(a) == a[1] = 0 /\ a[2] = 0 /\ a[3] < 32768

\* the false positive rates p passed to Estimate
Probs == {"0.5", "0.01", "0.001", "0.999999"}

\* math.Log(p) / c, c = -0.4804530139182015, in units of 10^-6
logOverC(p) ==
    CASE p = "0.5" -> 1442695
      [] p = "0.01" -> 9585058
      [] p = "0.001" -> 14377588
      [] p = "0.999999" -> 2

\* the numbers of elements n passed to Estimate: 1..EstMaxN and math.MaxInt
EstMaxN == 40

EstN == [max : {FALSE}, v : 1..EstMaxN] \cup {[max |-> TRUE, v |-> 0]}

\* math.Ceil(float64(n) * math.Log(p) / c): for n = math.MaxInt and a p of
\* at least one bit per element the float64 is 2^63 or more and fits no int
ceilBits(n, p) ==
    IF n.max THEN [fits |-> FALSE, v |-> 0]
             ELSE [fits |-> TRUE,
                   v |-> (n.v * logOverC(p) + Micro - 1) \div Micro]

\* int(x)
toInt(x, conv) ==
    IF x.fits THEN i64(x.v)
    ELSE IF conv = "min" THEN MinInt64 ELSE MaxInt64

\* m = int(math.Ceil(...)); m = (m + 511) &^ 511
Estimate(n, p, conv) == andnot511(add64(toInt(ceilBits(n, p), conv), 511))

EstIdle ==
    est = [n |-> [max |-> FALSE, v |-> 1], p |-> "0.5", conv |-> "min",
           called |-> FALSE, m |-> i64(0), made |-> "no"]

\* m := Estimate(n, p)
CallEstimate ==
    /\ ~est.called
    /\ est' = [est EXCEPT !.called = TRUE,
                          !.m = Estimate(est.n, est.p, est.conv)]
    /\ UNCHANGED <<filt, th, ncalls, cfg, lastcall, todo, done, begun, ubegun,
                   via, pre, q, qver, qhist, qout, qn, qpops, dvars,
                   svars, mvars, rvars>>

\* f = NewWithEstimate(n, p), that is New(Estimate(n, p)); make panics when
\* the number of words is negative or out of range
CallNewWithEstimate ==
    LET m == Estimate(est.n, est.p, est.conv)
    IN  /\ est.made = "no"
        /\ IF ~small64(m)
             THEN /\ est' = [est EXCEPT !.made = "panic"]
                  /\ UNCHANGED <<filt, msize>>
             ELSE /\ est' = [est EXCEPT !.made = "yes"]
                  /\ filt' = [filt EXCEPT !["f"] = New(m[3] * W16 + m[4])]
                  /\ msize' = [msize EXCEPT !["f"] = m[3] * W16 + m[4]]
        /\ UNCHANGED <<th, ncalls, budget, keys, seq, lastcall, todo, done,
                       begun, ubegun, via, pre, q, qver, qhist, qout, qn,
                       qpops, dvars, svars, mvars, rvars>>

----------------------------------------------------------------------------
(* Part 3: package disjoint, the union-find set (disjoint/disjoint.go).    *)
(* A Set is the function from its nodes 0..n-1 to their values: x > 0 is   *)
(* the root of a group of size x, x < 0 a link to node -x, x = 0 a link to *)
(* node 0.  Find changes the Set (path compression), so Find, Union, Same  *)
(* and Size give their result together with the Set they leave.           *)

DMaxNodes == 4

\* New(n): n singleton groups
DisjointNew(n) == [i \in 0..(n - 1) |-> 1]

\* path compression that stores root where -root belongs
RECURSIVE FindStoresRoot(_, _)
FindStoresRoot(s, i) ==
    LET val == s[i]
    IN  IF val > 0 THEN [root |-> i, s |-> s, panic |-> FALSE]
        ELSE IF val = 0 /\ i = 0 THEN [root |-> 0, s |-> s, panic |-> TRUE]
        ELSE LET r == FindStoresRoot(s, -val)
             IN  IF r.panic THEN r
                 ELSE [root |-> r.root,
                       s |-> IF val # r.root
                               THEN [r.s EXCEPT ![i] = r.root]
                               ELSE r.s,
                       panic |-> FALSE]

\* s.Find(i)
RECURSIVE Find(_, _)
Find(s, i) ==
    LET val == s[i]
    IN  IF val > 0 THEN [root |-> i, s |-> s, panic |-> FALSE]
        ELSE IF val = 0 /\ i = 0 THEN [root |-> 0, s |-> s, panic |-> TRUE]
        ELSE LET r == Find(s, -val)
             IN  IF r.panic THEN r
                 ELSE [root |-> r.root,
                       s |-> IF val # r.root
                               THEN [r.s EXCEPT ![i] = -r.root]
                               ELSE r.s,
                       panic |-> FALSE]

\* the swap made only when q's group is strictly larger
largerFirstStrict(s, rp, rq) ==
    IF s[rq] > s[rp] THEN <<rq, rp>> ELSE <<rp, rq>>

\* if s[q] >= s[p] { p, q = q, p }, for the roots rp = p and rq = q
largerFirst(s, rp, rq) == IF s[rq] >= s[rp] THEN <<rq, rp>> ELSE <<rp, rq>>

\* the size added to p, and q left a root
linkSizeOnly(s, rp, rq) == [s EXCEPT ![rp] = s[rp] + s[rq]]

\* a link that leaves the size of p as it was
linkOnly(s, rp, rq) == [s EXCEPT ![rq] = -rp]

\* s[p] += s[q]; s[q] = -p
link(s, rp, rq) == [s EXCEPT ![rp] = s[rp] + s[rq], ![rq] = -rp]

\* s.Union(i, j)
Union(s, i, j) ==
    LET fp == Find(s, i)
        fq == Find(fp.s, j)
        pq == largerFirst(fq.s, fp.root, fq.root)
    IN  IF fp.panic THEN [res |-> FALSE, s |-> fp.s, panic |-> TRUE]
        ELSE IF fq.panic THEN [res |-> FALSE, s |-> fq.s, panic |-> TRUE]
        ELSE IF fp.root = fq.root
               THEN [res |-> FALSE, s |-> fq.s, panic |-> FALSE]
               ELSE [res |-> TRUE, s |-> link(fq.s, pq[1], pq[2]),
                     panic |-> FALSE]

\* s.Same(i, j): s.Find(i) == s.Find(j)
Same(s, i, j) ==
    LET fp == Find(s, i)
        fq == Find(fp.s, j)
    IN  [res |-> ~fp.panic /\ ~fq.panic /\ fp.root = fq.root, s |-> fq.s,
         panic |-> fp.panic \/ fq.panic]

\* s.Size(i): s[s.Find(i)]
Size(s, i) ==
    LET f == Find(s, i)
    IN  [val |-> f.s[f.root], s |-> f.s, panic |-> f.panic]

\* s.CountGroups(): the number of v > 0
CountGroups(s) == Cardinality({i \in DOMAIN s : s[i] > 0})

\* s.Len()
DisjointLen(s) == Cardinality(DOMAIN s)

NoDCall == [op |-> "none", i |-> 0, j |-> 0, ok |-> FALSE, val |-> 0,
            pre |-> <<>>, preg |-> <<>>]

DisjointIdle ==
    /\ ds = <<>>
    /\ dsg = <<>>
    /\ dsu = 0
    /\ dsout = NoDCall

\* the call that has just been made, with the Set as it was before it
DCall(op, i, j, ok, val, panic) ==
    [op |-> IF panic THEN "panic" ELSE op, i |-> i, j |-> j, ok |-> ok,
     val |-> val, pre |-> ds, preg |-> dsg]

DRunning == dsout.op # "panic"

UnionCall ==
    /\ DRunning
    /\ \E i \in DOMAIN ds, j \in DOMAIN ds :
         LET u == Union(ds, i, j)
         IN  /\ ds' = u.s
             /\ dsg' = [a \in DOMAIN dsg |->
                           IF a \in dsg[i] \cup dsg[j]
                             THEN dsg[i] \cup dsg[j] ELSE dsg[a]]
             /\ dsu' = IF u.res THEN dsu + 1 ELSE dsu
             /\ dsout' = DCall("Union", i, j, u.res, 0, u.panic)
    /\ UNCHANGED <<bqvars, est, svars, mvars>>

FindCall ==
    /\ DRunning
    /\ \E i \in DOMAIN ds :
         LET f == Find(ds, i)
         IN  /\ ds' = f.s
             /\ dsout' = DCall("Find", i, i, TRUE, f.root, f.panic)
    /\ UNCHANGED <<bqvars, est, dsg, dsu, svars, mvars>>

SameCall ==
    /\ DRunning
    /\ \E i \in DOMAIN ds, j \in DOMAIN ds :
         LET f == Same(ds, i, j)
         IN  /\ ds' = f.s
             /\ dsout' = DCall("Same", i, j, f.res, 0, f.panic)
    /\ UNCHANGED <<bqvars, est, dsg, dsu, svars, mvars>>

SizeCall ==
    /\ DRunning
    /\ \E i \in DOMAIN ds :
         LET f == Size(ds, i)
         IN  /\ ds' = f.s
             /\ dsout' = DCall("Size", i, i, TRUE, f.val, f.panic)
    /\ UNCHANGED <<bqvars, est, dsg, dsu, svars, mvars>>

CountGroupsCall ==
    /\ DRunning
    /\ dsout' = DCall("CountGroups", 0, 0, TRUE, CountGroups(ds), FALSE)
    /\ UNCHANGED <<bqvars, est, ds, dsg, dsu, svars, mvars>>

----------------------------------------------------------------------------
(* Part 4: package sparse, the sparse Set and Map (sparse/set.go, map.go). *)
(* The element type E is any integer type: uint16 and int16 stand for the  *)
(* unsigned and the signed ones.  dense is a sequence, so dense[a] of the  *)
(* code is dense[a + 1]; sparse is a function on 0..Cap()-1.  An index     *)
(* that is out of range makes the call panic.                              *)

ETypes == {"uint16", "int16"}

\* the keys passed to the Set and the Map
SMaxKey == 3

SKeys == 0..SMaxKey

\* the capacities passed to NewSet and NewMap
SCaps == {0, 2}

\* the values passed to Map.Set
MapVals == {10, 20}

\* ^E(0)
allOnes(E) == IF E = "uint16" THEN 65535 ELSE -1

\* NewSet[E](capacity)
NewSet(E, capacity) ==
    [E |-> E, dense |-> <<>>,
     sparse |-> [i \in 0..(Max(capacity, 1) - 1) |-> allOnes(E)]]

\* NewMap[E, T](capacity): sparse is make([]E, capacity), all zero
NewMap(E, capacity) ==
    [E |-> E, dense |-> <<>>,
     sparse |-> [i \in 0..(Max(capacity, 1) - 1) |-> 0],
     values |-> <<>>]

\* s.Cap()
SetCap(s) == Cardinality(DOMAIN s.sparse)

\* s.Len()
SetLen(s) == Len(s.dense)

\* s.Keys()
SetKeys(s) == s.dense

\* the lengths slices.Grow may give sparse when it has to hold n: the
\* capacity append chooses is at least n
growCaps(s, n) == IF n > SetCap(s) THEN {n, n + 1} ELSE {SetCap(s)}

\* s.Grow(n), sparse getting length c
SetGrow(s, n, c) ==
    IF n - SetCap(s) > 0
      THEN [s EXCEPT !.sparse = [i \in 0..(c - 1) |->
                                    IF i < SetCap(s) THEN s.sparse[i]
                                                     ELSE allOnes(s.E)]]
      ELSE s

\* s.Reset()
SetReset(s) ==
    [s EXCEPT !.sparse = [i \in DOMAIN s.sparse |-> allOnes(s.E)],
              !.dense = <<>>]

\* a && b of the code where b indexes dense with a: "panic" if the index is
\* out of range
denseIs(s, a, k) ==
    IF a < 0 \/ a >= Len(s.dense) THEN "panic"
    ELSE IF s.dense[a + 1] = k THEN "yes" ELSE "no"

\* s.Has(k), k < s.Cap(): a < E(len(s.dense)) && s.dense[a] == k
Has(s, k) ==
    LET a == s.sparse[k]
    IN  IF a < Len(s.dense)
          THEN [res |-> denseIs(s, a, k) = "yes",
                panic |-> denseIs(s, a, k) = "panic"]
          ELSE [res |-> FALSE, panic |-> FALSE]

\* s.add(k), the Grow giving sparse length c
add(s, k, c) ==
    LET g == SetGrow(s, k + 1, c)
        a == g.sparse[k]
        n == Len(g.dense)
    IN  IF a >= n \/ denseIs(g, a, k) = "no"
          THEN [s |-> [g EXCEPT !.sparse[k] = n,
                                !.dense = Append(g.dense, k)],
                res |-> TRUE, panic |-> FALSE]
          ELSE [s |-> g, res |-> FALSE,
                panic |-> denseIs(g, a, k) = "panic"]

\* s.del(k), k < s.Cap()
del(s, k) ==
    LET a == s.sparse[k]
        n == Len(s.dense)
    IN  IF a < n /\ denseIs(s, a, k) = "yes"
          THEN LET e == s.dense[n]
               IN  [s |-> [s EXCEPT
                             !.sparse = [[s.sparse EXCEPT ![e] = a]
                                            EXCEPT ![k] = allOnes(s.E)],
                             !.dense = SubSeq([s.dense EXCEPT ![a + 1] = e],
                                              1, n - 1)],
                    res |-> a, panic |-> FALSE]
          ELSE [s |-> s, res |-> -1,
                panic |-> a < n /\ denseIs(s, a, k) = "panic"]

\* s.Swap(i, j), i and j < s.Len()
SetSwap(s, i, j) ==
    LET kp == s.dense[i + 1]
        kq == s.dense[j + 1]
    IN  [s EXCEPT !.sparse = [[s.sparse EXCEPT ![kp] = s.sparse[kq]]
                                 EXCEPT ![kq] = s.sparse[kp]],
                  !.dense = [[s.dense EXCEPT ![i + 1] = kq]
                                EXCEPT ![j + 1] = kp]]

NoSCall == [op |-> "none", k |-> 0, v |-> 0, ok |-> FALSE]

SparseIdle ==
    /\ ss = NewSet("uint16", 0)
    /\ ssm = {}
    /\ ssout = NoSCall

MapIdle ==
    /\ sm = NewMap("uint16", 0)
    /\ smg = <<>>
    /\ smout = NoSCall

\* the call that has just been made
SCall(op, k, v, ok, panic) ==
    [op |-> IF panic THEN "panic" ELSE op, k |-> k, v |-> v, ok |-> ok]

SRunning == ssout.op # "panic"

\* s.Add(k)
SetAdd ==
    /\ SRunning
    /\ \E k \in SKeys : \E c \in growCaps(ss, k + 1) :
         LET r == add(ss, k, c)
         IN  /\ ss' = r.s
             /\ ssm' = ssm \cup {k}
             /\ ssout' = SCall("Add", k, 0, r.res, r.panic)
    /\ UNCHANGED <<bqvars, est, dvars, mvars>>

\* s.Del(k)
SetDel ==
    /\ SRunning
    /\ \E k \in SKeys :
         /\ k < SetCap(ss)
         /\ LET r == del(ss, k)
            IN  /\ ss' = r.s
                /\ ssm' = ssm \ {k}
                /\ ssout' = SCall("Del", k, 0, r.res # -1, r.panic)
    /\ UNCHANGED <<bqvars, est, dvars, mvars>>

\* s.Has(k)
SetHas ==
    /\ SRunning
    /\ \E k \in SKeys :
         /\ k < SetCap(ss)
         /\ ssout' = SCall("Has", k, 0, Has(ss, k).res, Has(ss, k).panic)
    /\ UNCHANGED <<bqvars, est, dvars, mvars, ss, ssm>>

\* s.Swap(i, j)
SetSwapCall ==
    /\ SRunning
    /\ \E i \in 0..(SetLen(ss) - 1), j \in 0..(SetLen(ss) - 1) :
         /\ ss' = SetSwap(ss, i, j)
         /\ ssout' = SCall("Swap", i, j, TRUE, FALSE)
    /\ UNCHANGED <<bqvars, est, dvars, mvars, ssm>>

\* s.Reset()
SetResetCall ==
    /\ SRunning
    /\ ss' = SetReset(ss)
    /\ ssm' = {}
    /\ ssout' = SCall("Reset", 0, 0, TRUE, FALSE)
    /\ UNCHANGED <<bqvars, est, dvars, mvars>>

\* m.Set(k, v): if m.set.add(k) { m.values = append(m.values, v) }
MapSet(m, k, v, c) ==
    LET r == add(m, k, c)
    IN  [s |-> IF r.res THEN [r.s EXCEPT !.values = Append(m.values, v)]
                        ELSE r.s,
         panic |-> r.panic]

\* m.Index(k), k < m.Cap()
Index(m, k) ==
    LET a == m.sparse[k]
    IN  IF a < Len(m.dense)
          THEN [a |-> a, exists |-> denseIs(m, a, k) = "yes",
                panic |-> denseIs(m, a, k) = "panic"]
          ELSE [a |-> a, exists |-> FALSE, panic |-> FALSE]

\* m.Get(k): the zero value if k does not exist
MapGet(m, k) ==
    LET x == Index(m, k)
    IN  [v |-> IF x.exists THEN m.values[x.a + 1] ELSE 0,
         exists |-> x.exists, panic |-> x.panic]

\* m.Del(x)
MapDel(m, k) ==
    LET r == del(m, k)
        n == Len(m.values)
    IN  [s |-> IF r.res # -1
                 THEN [r.s EXCEPT !.values =
                          SubSeq([m.values EXCEPT ![r.res + 1] = m.values[n]],
                                 1, n - 1)]
                 ELSE r.s,
         panic |-> r.panic]

MRunning == smout.op # "panic"

MapSetCall ==
    /\ MRunning
    /\ \E k \in SKeys, v \in MapVals : \E c \in growCaps(sm, k + 1) :
         LET r == MapSet(sm, k, v, c)
         IN  /\ sm' = r.s
             /\ smg' = [x \in DOMAIN smg \cup {k} |->
                           IF x = k THEN v ELSE smg[x]]
             /\ smout' = SCall("Set", k, v, TRUE, r.panic)
    /\ UNCHANGED <<bqvars, est, dvars, svars>>

MapGetCall ==
    /\ MRunning
    /\ \E k \in SKeys :
         /\ k < SetCap(sm)
         /\ LET r == MapGet(sm, k)
            IN  smout' = SCall("Get", k, r.v, r.exists, r.panic)
    /\ UNCHANGED <<bqvars, est, dvars, svars, sm, smg>>

MapDelCall ==
    /\ MRunning
    /\ \E k \in SKeys :
         /\ k < SetCap(sm)
         /\ LET r == MapDel(sm, k)
            IN  /\ sm' = r.s
                /\ smg' = [x \in DOMAIN smg \ {k} |-> smg[x]]
                /\ smout' = SCall("Del", k, 0, TRUE, r.panic)
    /\ UNCHANGED <<bqvars, est, dvars, svars>>

----------------------------------------------------------------------------
(* Part 5: package sparsebits (sparsebits/sparsebits.go).  dat is a        *)
(* sequence of uint64 words, so dat[at] of the code is dat[at + 1]; every  *)
(* word is the set of its one-bit positions, whether the code uses it as a *)
(* word of 64 bits or as the index of a child pair.  An index that is out  *)
(* of range makes the call panic.                                          *)

\* the arguments n of New(n)
BitsSizes == {1, 128, 129, 512}

\* the indices i the callers pass
BitsIdx == {0, 63, 64, 127, 128, 200, 256, 511}

RECURSIVE pow2(_)
pow2(b) == IF b = 0 THEN 1 ELSE 2 * pow2(b - 1)

\* the uint64 of the int n, 0 <= n < 2^16
word(n) == {b \in 0..15 : (n \div pow2(b)) % 2 = 1}

RECURSIVE sumBits(_)
sumBits(w) ==
    IF w = {} THEN 0
    ELSE LET b == CHOOSE c \in w : TRUE IN pow2(b) + sumBits(w \ {b})

\* the value of word w as an index; a word of 2^16 or more is beyond the
\* length of every dat
val(w) == IF \E b \in w : b > 15 THEN 65536 ELSE sumBits(w)

\* uint64(1) << idx: no bit is left when idx >= 64
bit(idx) == IF idx < 64 THEN {idx} ELSE {}

\* have := 128; for have < n { have <<= 1 }
RECURSIVE have(_, _)
have(h, n) == IF h < n THEN have(2 * h, n) ELSE h

\* New(n): dat = {0, 0}, mid = have >> 1
BitsNew(n) == [dat |-> <<{}, {}>>, mid |-> have(128, n) \div 2, panic |-> FALSE]

\* s.Len(): int(s.mid << 1)
BitsLen(s) == s.mid * 2

\* s.Reset(): s.dat = append(s.dat[:0], 0, 0)
BitsReset(s) == [s EXCEPT !.dat = <<{}, {}>>]

\* the step down that keeps idx as it is
descendKeepsIdx(idx, at, mid) ==
    IF idx >= mid THEN <<idx, at + 1>> ELSE <<idx, at>>

\* if idx >= mid { idx -= mid; at++ }
descend(idx, at, mid) ==
    IF idx >= mid THEN <<idx - mid, at + 1>> ELSE <<idx, at>>

\* the loop of Get from the state idx, at, mid
RECURSIVE getLoop(_, _, _, _)
getLoop(dat, idx, at, mid) ==
    LET d == descend(idx, at, mid)
    IN  IF d[2] >= Len(dat) THEN [res |-> FALSE, panic |-> TRUE]
        ELSE LET w == dat[d[2] + 1]
             IN  IF mid = 64
                   THEN [res |-> bit(d[1]) # {} /\ bit(d[1]) \subseteq w,
                         panic |-> FALSE]
                   ELSE IF w = {} THEN [res |-> FALSE, panic |-> FALSE]
                   ELSE getLoop(dat, d[1], val(w), mid \div 2)

\* s.Get(i)
BitsGet(s, i) == getLoop(s.dat, i, 0, s.mid)

\* the loop of twiddle from the state idx, at, mid: the dat it leaves
RECURSIVE twiddleLoop(_, _, _, _, _)
twiddleLoop(dat, idx, at, mid, op) ==
    LET d == descend(idx, at, mid)
    IN  IF d[2] >= Len(dat) THEN [dat |-> dat, panic |-> TRUE]
        ELSE LET w == dat[d[2] + 1]
             IN  IF mid = 64
                   THEN [dat |-> [dat EXCEPT ![d[2] + 1] =
                                    CASE op = 0 -> w \ bit(d[1])
                                      [] op = 1 -> w \cup bit(d[1])
                                      [] op = 2 -> (w \ bit(d[1]))
                                                     \cup (bit(d[1]) \ w)],
                         panic |-> FALSE]
                   ELSE IF w = {}
                     THEN IF op = 0 THEN [dat |-> dat, panic |-> FALSE]
                          ELSE twiddleLoop(
                                 [dat EXCEPT ![d[2] + 1] = word(Len(dat))]
                                     \o <<{}, {}>>,
                                 d[1], Len(dat), mid \div 2, op)
                     ELSE twiddleLoop(dat, d[1], val(w), mid \div 2, op)

\* s.twiddle(i, op)
twiddle(s, i, op) ==
    LET r == twiddleLoop(s.dat, i, 0, s.mid, op)
    IN  [s EXCEPT !.dat = r.dat, !.panic = r.panic]

\* s.Set(i, to)
BitsSet(s, i, to) == IF to THEN twiddle(s, i, 1) ELSE twiddle(s, i, 0)

\* s.Flip(i)
Flip(s, i) == twiddle(s, i, 2)

\* the loop of OnesCount: qq is the stack q of pairs at, mid, the last
\* pair on top
RECURSIVE countLoop(_, _, _)
countLoop(dat, qq, count) ==
    IF qq = <<>> THEN [count |-> count, panic |-> FALSE]
    ELSE LET top  == qq[Len(qq)]
             rest == SubSeq(qq, 1, Len(qq) - 1)
             at   == top[1]
             odd  == IF at % 2 = 1 THEN at ELSE at + 1
         IN  IF odd >= Len(dat) THEN [count |-> count, panic |-> TRUE]
             ELSE LET at1 == dat[odd + 1]
                      at0 == dat[at + 1]
                  IN  IF top[2] = 64
                        THEN countLoop(dat, rest,
                                 count + Cardinality(at0) + Cardinality(at1))
                        ELSE countLoop(dat,
                                 rest
                                   \o (IF at0 # {}
                                         THEN <<<<val(at0), top[2] \div 2>>>>
                                         ELSE <<>>)
                                   \o (IF at1 # {}
                                         THEN <<<<val(at1), top[2] \div 2>>>>
                                         ELSE <<>>),
                                 count)

\* s.OnesCount()
OnesCount(s) == countLoop(s.dat, <<<<0, s.mid>>>>, 0)

BitsIdle ==
    /\ sb = [dat |-> <<>>, mid |-> 0, panic |-> FALSE]
    /\ sbref = {}

\* s.Set(i, to), 0 <= i < s.Len()
BitsSetCall ==
    /\ ~sb.panic
    /\ \E i \in BitsIdx, to \in BOOLEAN :
         /\ i < BitsLen(sb)
         /\ sb' = BitsSet(sb, i, to)
         /\ sbref' = IF to THEN sbref \cup {i} ELSE sbref \ {i}
    /\ UNCHANGED <<fqvars, pvars, sel, hvars>>

\* s.Flip(i), 0 <= i < s.Len()
BitsFlipCall ==
    /\ ~sb.panic
    /\ \E i \in BitsIdx :
         /\ i < BitsLen(sb)
         /\ sb' = Flip(sb, i)
         /\ sbref' = IF i \in sbref THEN sbref \ {i} ELSE sbref \cup {i}
    /\ UNCHANGED <<fqvars, pvars, sel, hvars>>

\* s.Reset()
BitsResetCall ==
    /\ ~sb.panic
    /\ sb' = BitsReset(sb)
    /\ sbref' = {}
    /\ UNCHANGED <<fqvars, pvars, sel, hvars>>

----------------------------------------------------------------------------
(* Part 6: Select of package xslices.  The slice s is a sequence, so s[i]  *)
(* of the code is s[i + 1].  One step is the head of the outer loop or one *)
(* iteration of the inner loop; odd tells whether the number of iterations *)
(* of the inner loop made so far is odd.                                   *)

SelMaxLen == 4

\* the elements of the slices
SelVals == 0..2

min(a, b) == IF a < b THEN a ELSE b

max(a, b) == IF a > b THEN a ELSE b

\* median3(a, b, c)
median3(a, b, c) ==
    LET a1 == IF a > b THEN b ELSE a
        b1 == IF a > b THEN a ELSE b
        b2 == min(b1, c)
    IN  max(a1, b2)

\* for i < len(s) && s[i] < pivot { i++ }
RECURSIVE scanUp(_, _, _)
scanUp(s, i, pivot) ==
    IF i < Len(s) /\ s[i + 1] < pivot THEN scanUp(s, i + 1, pivot) ELSE i

\* for j >= 0 && s[j] > pivot { j-- }
RECURSIVE scanDown(_, _, _)
scanDown(s, j, pivot) ==
    IF j >= 0 /\ s[j + 1] > pivot THEN scanDown(s, j - 1, pivot) ELSE j

SelectIdle == sel = [pc |-> "idle"]

\* Select(s, k) has been called and has passed the bounds check s[k]
SelectStart(s, k) ==
    [pc |-> "loop", s |-> s, k |-> k, lo |-> 0, hi |-> Len(s) - 1, i |-> 0,
     j |-> 0, pivot |-> 0, ret |-> 0, input |-> s, odd |-> FALSE]

\* for lo < hi { mi, pivot; for i, j := lo, hi; ... } return s[lo]
SelectLoop ==
    /\ sel.pc = "loop"
    /\ sel' = IF sel.lo < sel.hi
                THEN LET mi == sel.lo + ((sel.hi - sel.lo) \div 2)
                     IN  [sel EXCEPT !.pc = "part", !.i = sel.lo, !.j = sel.hi,
                                     !.pivot = median3(sel.s[sel.lo + 1],
                                                       sel.s[mi + 1],
                                                       sel.s[sel.hi + 1])]
                ELSE IF sel.lo < 0 \/ sel.lo >= Len(sel.s)
                       THEN [sel EXCEPT !.pc = "panic"]
                       ELSE [sel EXCEPT !.pc = "done", !.ret = sel.s[sel.lo + 1]]
    /\ UNCHANGED <<fqvars, pvars, bsvars, hvars>>

\* one iteration of the inner loop: the two scans, then the switch on k
\* when i >= j, else the swap of s[i] and s[j]
SelectPart ==
    /\ sel.pc = "part"
    /\ LET i == scanUp(sel.s, sel.i, sel.pivot)
           j == scanDown(sel.s, sel.j, sel.pivot)
           r == [sel EXCEPT !.i = i, !.j = j, !.odd = ~sel.odd]
       IN  sel' = IF i >= j
                    THEN IF sel.k < i
                           THEN [r EXCEPT !.pc = "loop", !.hi = i - 1]
                           ELSE IF sel.k > i
                           THEN [r EXCEPT !.pc = "loop", !.lo = i + 1]
                           ELSE [r EXCEPT !.pc = "done", !.ret = sel.s[i + 1]]
                    ELSE [r EXCEPT
                                     !.s = [sel.s EXCEPT ![i + 1] = sel.s[j + 1],
                                                         ![j + 1] = sel.s[i + 1]]]
    /\ UNCHANGED <<fqvars, pvars, bsvars, hvars>>

----------------------------------------------------------------------------
(* Part 7: package murmurhash3, the streaming digest.  A byte slice is a   *)
(* sequence of bytes, so p[i] of the code is p[i + 1].  round, fmix64 and  *)
(* the arithmetic of finalize are fixed functions of their arguments and   *)
(* stay uninterpreted: the pair h0, h1 is the sequence h of the blocks     *)
(* that round has mixed into the seed, in order, and a checksum is the     *)
(* record of the arguments finalize computes it from.  Two checksums that  *)
(* are equal here are equal in the code.                                   *)

\* the number of bytes written to a digest in all
MhMaxBytes == 35

\* the bytes the callers write: byte a of the stream is a, so that no two
\* bytes of a stream are equal
stream(a, b) == [c \in 1..(b - a + 1) |-> a + c - 1]

\* getblock(p): k0 is p[0:8] and k1 is p[8:16], little endian
getblock(p) == <<SubSeq(p, 1, 8), SubSeq(p, 9, 16)>>

\* round(h0, h1, k0, k1)
round(h, k) == Append(h, k)

\* mix(h0, h1, p): a round for each whole block of p; what is left of p
RECURSIVE mix(_, _)
mix(h, p) ==
    IF Len(p) >= 16
      THEN mix(round(h, getblock(p)), SubSeq(p, 17, Len(p)))
      ELSE [h |-> h, p |-> p]

\* a copy that ignores the offset: copy(dst, src)
copyAtStart(dst, off, src) ==
    [a \in 1..Len(dst) |-> IF a <= Len(src) THEN src[a] ELSE dst[a]]

\* copy(dst[off:], src)
copyAt(dst, off, src) ==
    [a \in 1..Len(dst) |->
        IF a > off /\ a - off <= Len(src) THEN src[a - off] ELSE dst[a]]

\* finalize(h0, h1, n, head, tail): k0 is made of tail[0:8] and k1 of
\* tail[8:16], as far as head & 15 bytes reach
finalize(h, n, head, tail) ==
    [h |-> h, n |-> n,
     k0 |-> SubSeq(tail, 1, min(head % 16, 8)),
     k1 |-> SubSeq(tail, 9, head % 16)]

\* the zero digest of New() and New64()
NewDigest == [h |-> <<>>, n |-> 0, head |-> 0, tail |-> [a \in 1..16 |-> 0]]

\* d.Write(p): the digest it leaves and the int it returns
Write(d, p) ==
    LET r     == 16 - d.head
        fills == d.head > 0 /\ Len(p) >= r
        tail1 == IF fills THEN copyAt(d.tail, d.head, SubSeq(p, 1, r))
                          ELSE d.tail
        p1    == IF fills THEN SubSeq(p, r + 1, Len(p)) ELSE p
        h1    == IF fills THEN round(d.h, getblock(tail1)) ELSE d.h
        m     == mix(h1, p1)
    IN  IF d.head > 0 /\ Len(p) < r
          THEN [d |-> [d EXCEPT !.n = d.n + Len(p),
                                !.tail = copyAt(d.tail, d.head, p),
                                !.head = d.head + Len(p)],
                ret |-> Len(p)]
          ELSE [d |-> [h |-> m.h, n |-> d.n + Len(p), head |-> Len(m.p),
                       tail |-> copyAt(tail1, 0, m.p)],
                ret |-> Len(p1)]

\* d.Sum(nil) of a digest128: h0 and h1 of finalize
Sum(d) == finalize(d.h, d.n, d.head, d.tail)

\* d.Sum64() of a digest64: h0 of finalize
Sum64(d) == [half |-> "h0", of |-> finalize(d.h, d.n, d.head, d.tail)]

\* Sum(p) and Sum64(p): one Write of p to a zero digest
SumOf(p) == Sum(Write(NewDigest, p).d)
Sum64Of(p) == Sum64(Write(NewDigest, p).d)

\* d.Write(p) with the next Len(p) bytes of the stream
WriteCall ==
    \E c \in 0..(MhMaxBytes - mh.n) :
        LET p == stream(mh.n + 1, mh.n + c)
            w == Write(mh, p)
        IN  /\ mh' = w.d
            /\ mhin' = mhin \o p
            /\ mhout' = [len |-> c, ret |-> w.ret]
            /\ UNCHANGED <<fqvars, pvars, bsvars, sel>>

DigestIdle ==
    /\ mh = NewDigest
    /\ mhin = <<>>
    /\ mhout = [len |-> 0, ret |-> 0]

PartsIdle == EstIdle /\ DisjointIdle /\ SparseIdle /\ MapIdle

RestIdle == BitsIdle /\ SelectIdle /\ DigestIdle

\* the parts other than the filter methods and the queue are not in use
OthersIdle == PartsIdle /\ RestIdle

----------------------------------------------------------------------------
(* Specifications *)

\* f is new; g is new or has had the keys gs added to it
InitFilters(gs) ==
    /\ filt = [F \in FilterIds |->
                 IF F = "g" THEN addAll(New(FilterBits), gs)
                            ELSE New(FilterBits)]
    /\ th = [t \in Threads |-> IdleRec]
    /\ ncalls = [t \in Threads |-> 0]
    /\ done = [F \in FilterIds |->
                 IF F = "g" THEN {gs[k] : k \in 1..Len(gs)} ELSE {}]
    /\ begun = done
    /\ ubegun = [F \in FilterIds |-> {}]
    /\ via = [F \in FilterIds |-> {}]
    /\ pre = filt
    /\ lastcall = NoCall
    /\ msize = [F \in FilterIds |-> FilterBits]

\* the zero value of Queue, or New with a buffer of up to InitCap elements
InitQueue ==
    /\ qver \in {"queue.go", "later"}
    /\ \E c \in 0..InitCap : q = [elem |-> zeros(c), head |-> 0, tail |-> 0]
    /\ qhist = <<>>
    /\ qout = [op |-> "none", val |-> 0, want |-> 0]
    /\ qn = 0
    /\ qpops = 0

QueueIdle ==
    /\ qver = "queue.go"
    /\ q = [elem |-> <<>>, head |-> 0, tail |-> 0]
    /\ qhist = <<>>
    /\ qout = [op |-> "none", val |-> 0, want |-> 0]
    /\ qn = 0
    /\ qpops = 0

\* any number of threads calling every method of the filter
Init ==
    /\ InitFilters(<<>>)
    /\ budget = MaxCalls
    /\ seq = FALSE
    /\ keys = SharedKeys
    /\ todo = [t \in Threads |-> {}]
    /\ QueueIdle
    /\ OthersIdle

Next ==
    \E t \in Threads :
        \/ CallAdd(t) \/ CallAddG(t)
        \/ CallTest(t) \/ CallTestAndAdd(t) \/ CallUnionWith(t)
        \/ CallReset(t) \/ CallEmpty(t) \/ CallEqual(t) \/ CallLen(t)
        \/ SetBitsLoad(t) \/ SetBitsCAS(t) \/ TestLoad(t) \/ UnionRead(t)
        \/ ResetStore(t) \/ EmptyLoad(t) \/ EqualLoad(t) \/ LenLoad(t)
        \/ Return(t)

Spec == Init /\ [][Next]_vars

\* the threads are scheduled fairly: a thread that can take a step takes one
Fairness == \A t \in Threads :
    WF_vars(SetBitsLoad(t) \/ SetBitsCAS(t) \/ TestLoad(t) \/ UnionRead(t)
            \/ ResetStore(t) \/ EmptyLoad(t) \/ EqualLoad(t) \/ LenLoad(t)
            \/ Return(t))

SpecFair == Init /\ [][Next]_vars /\ Fairness

\* thread 1 may be suspended at any point, for ever; the other threads are
\* scheduled fairly
FairnessOthers == \A t \in Threads \ {1} :
    WF_vars(SetBitsLoad(t) \/ SetBitsCAS(t) \/ TestLoad(t) \/ UnionRead(t)
            \/ ResetStore(t) \/ EmptyLoad(t) \/ EqualLoad(t) \/ LenLoad(t)
            \/ Return(t))

SpecSuspend == Init /\ [][Next]_vars /\ FairnessOthers

\* concurrent callers of Add, Test, TestAndAdd and UnionWith, no Reset
NextShared ==
    \E t \in Threads :
        \/ CallAdd(t) \/ CallTest(t) \/ CallTestAndAdd(t) \/ CallUnionWith(t)
        \/ SetBitsLoad(t) \/ SetBitsCAS(t) \/ TestLoad(t) \/ UnionRead(t)
        \/ Return(t)

\* g holds KB, added before the threads start
InitShared ==
    /\ InitFilters(<<KB>>)
    /\ budget = SharedCalls
    /\ seq = FALSE
    /\ keys = SharedKeys
    /\ todo = [t \in Threads |-> {}]
    /\ QueueIdle
    /\ OthersIdle

SpecShared == InitShared /\ [][NextShared]_vars

\* every method but Reset, on filters shared by all threads
NextGain ==
    \E t \in Threads :
        \/ CallAdd(t) \/ CallTest(t) \/ CallTestAndAdd(t) \/ CallUnionWith(t)
        \/ CallEmpty(t) \/ CallEqual(t) \/ CallLen(t)
        \/ SetBitsLoad(t) \/ SetBitsCAS(t) \/ TestLoad(t) \/ UnionRead(t)
        \/ EmptyLoad(t) \/ EqualLoad(t) \/ LenLoad(t)
        \/ Return(t)

SpecGain == InitShared /\ [][NextGain]_vars

\* two filters of FilterBits bits, f holding the keys of the sequence fs
InitHolding(fs) ==
    /\ filt = [F \in FilterIds |->
                 IF F = "f" THEN addAll(New(FilterBits), fs)
                            ELSE New(FilterBits)]
    /\ th = [t \in Threads |-> IdleRec]
    /\ ncalls = [t \in Threads |-> 0]
    /\ done = [F \in FilterIds |->
                 IF F = "f" THEN {fs[k] : k \in 1..Len(fs)} ELSE {}]
    /\ begun = done
    /\ ubegun = [F \in FilterIds |-> {}]
    /\ via = [F \in FilterIds |-> {}]
    /\ pre = filt
    /\ lastcall = NoCall
    /\ msize = [F \in FilterIds |-> FilterBits]

\* every thread calls TestAndAdd(x) once, all for the same key x, on a
\* filter f that does not hold every bit of x; the calls are observed up to
\* the point where each has its result
InitRace ==
    /\ \E x \in SharedKeys : \E fs \in {<<>>, <<KA>>, <<KB>>} :
          /\ ~testIn(addAll(New(FilterBits), fs), x)
          /\ keys = {x}
          /\ InitHolding(fs)
    /\ budget = MaxCalls
    /\ seq = FALSE
    /\ todo = [t \in Threads |-> {}]
    /\ QueueIdle
    /\ OthersIdle

NextRace ==
    \E t \in Threads :
        CallTestAndAdd(t) \/ SetBitsLoad(t) \/ SetBitsCAS(t)

SpecRace == InitRace /\ [][NextRace]_vars

\* f holds some keys; each thread makes one call, a Reset or an Add, and the
\* calls are observed up to the point where each is about to return
InitReset ==
    /\ \E fs \in {<<KA>>, <<KB>>, <<KA, KB>>} : InitHolding(fs)
    /\ keys = SharedKeys
    /\ budget = MaxCalls
    /\ seq = FALSE
    /\ todo = [t \in Threads |-> {}]
    /\ QueueIdle
    /\ OthersIdle

NextReset ==
    \E t \in Threads :
        \/ CallReset(t) \/ CallAdd(t)
        \/ ResetStore(t) \/ SetBitsLoad(t) \/ SetBitsCAS(t)

SpecReset == InitReset /\ [][NextReset]_vars

\* workers adding a partition of a set of keys
InitWorkers ==
    /\ InitFilters(<<>>)
    /\ budget = 0
    /\ seq = FALSE
    /\ keys = Keys
    /\ todo \in [Threads -> SUBSET Keys]
    /\ \A t, u \in Threads : t # u => todo[t] \cap todo[u] = {}
    /\ QueueIdle
    /\ OthersIdle

NextWorkers ==
    \E t \in Threads :
        WorkerAdd(t) \/ SetBitsLoad(t) \/ SetBitsCAS(t) \/ Return(t)

SpecWorkers == InitWorkers /\ [][NextWorkers]_vars

\* one caller, no concurrency
InitSeq ==
    /\ InitFilters(<<>>)
    /\ budget = SeqCalls
    /\ seq = TRUE
    /\ keys = Keys
    /\ todo = [t \in Threads |-> {}]
    /\ QueueIdle
    /\ OthersIdle

NextSeq ==
    \/ CallAdd(1) \/ CallAddG(1)
    \/ CallTest(1) \/ CallTestAndAdd(1) \/ CallUnionWith(1)
    \/ CallReset(1) \/ CallEmpty(1) \/ CallEqual(1) \/ CallLen(1)
    \/ SetBitsLoad(1) \/ SetBitsCAS(1) \/ TestLoad(1) \/ UnionRead(1)
    \/ ResetStore(1) \/ EmptyLoad(1) \/ EqualLoad(1) \/ LenLoad(1)
    \/ Return(1)

SpecSeq == InitSeq /\ [][NextSeq]_vars

\* one caller and two filters made by New(m), for every m of Sizes
InitSizes ==
    /\ msize \in [FilterIds -> Sizes]
    /\ filt = [F \in FilterIds |-> New(msize[F])]
    /\ th = [t \in Threads |-> IdleRec]
    /\ ncalls = [t \in Threads |-> 0]
    /\ done = [F \in FilterIds |-> {}]
    /\ begun = done
    /\ ubegun = [F \in FilterIds |-> {}]
    /\ via = [F \in FilterIds |-> {}]
    /\ pre = filt
    /\ lastcall = NoCall
    /\ budget = SizeCalls
    /\ seq = TRUE
    /\ keys = SizeKeys
    /\ todo = [t \in Threads |-> {}]
    /\ QueueIdle
    /\ OthersIdle

NextSizes ==
    \/ CallAdd(1) \/ CallAddG(1)
    \/ CallTest(1) \/ CallTestAndAdd(1) \/ CallUnionWith(1)
    \/ CallReset(1) \/ CallEmpty(1) \/ CallEqualAny(1) \/ CallLen(1)
    \/ SetBitsLoad(1) \/ SetBitsCAS(1) \/ TestLoad(1) \/ UnionRead(1)
    \/ ResetStore(1) \/ EmptyLoad(1) \/ EqualLoad(1) \/ LenLoad(1)
    \/ Return(1)

SpecSizes == InitSizes /\ [][NextSizes]_vars

\* a queue under any sequence of Push and Pop
InitQ ==
    /\ InitFilters(<<>>)
    /\ budget = 0
    /\ seq = FALSE
    /\ keys = Keys
    /\ todo = [t \in Threads |-> {}]
    /\ InitQueue
    /\ OthersIdle

NextQ == Push \/ Pop

SpecQueue == InitQ /\ [][NextQ]_vars

\* a queue under any sequence of Push, Pop and Grow
NextGrow == Push \/ Pop \/ GrowCall

SpecGrow == InitQ /\ [][NextGrow]_vars

\* Len on filters whose words were stored directly (Filter is a slice of
\* uint64): each block starts with one of these numbers of one bits
LenOnes == {0, 4, 8, 256, 511, 512}

\* word w of a block whose c lowest bits are one
prefixWord(c, w) == {b \in 0..63 : w * 64 + b < c}

InitLen ==
    /\ \E m \in Sizes : msize = [F \in FilterIds |-> m]
    /\ \E c \in [0..(((msize["f"] + 511) \div 512) - 1) -> LenOnes] :
         filt = [F \in FilterIds |->
                    IF F = "f"
                      THEN [i \in DOMAIN New(msize[F]) |->
                               prefixWord(c[i \div 8], i % 8)]
                      ELSE New(msize[F])]
    /\ th = [t \in Threads |-> IdleRec]
    /\ ncalls = [t \in Threads |-> 0]
    /\ done = [F \in FilterIds |-> {}]
    /\ begun = done
    /\ ubegun = [F \in FilterIds |-> {}]
    /\ via = [F \in FilterIds |-> {}]
    /\ pre = filt
    /\ lastcall = NoCall
    /\ budget = MaxCalls
    /\ seq = TRUE
    /\ keys = SizeKeys
    /\ todo = [t \in Threads |-> {}]
    /\ QueueIdle
    /\ OthersIdle

NextLen == CallLen(1) \/ LenLoad(1) \/ Return(1)

SpecLen == InitLen /\ [][NextLen]_vars

\* no filter method and no queue method is called
BloomIdle ==
    /\ InitFilters(<<>>)
    /\ budget = 0
    /\ seq = FALSE
    /\ keys = Keys
    /\ todo = [t \in Threads |-> {}]

\* Estimate and NewWithEstimate on every n of EstN and p of Probs for which
\* the model has the float64 product
InitEstimate ==
    /\ BloomIdle
    /\ RestIdle
    /\ QueueIdle
    /\ \E n \in EstN, p \in Probs, conv \in {"min", "max"} :
         /\ n.max => logOverC(p) >= Micro
         /\ est = [n |-> n, p |-> p, conv |-> conv, called |-> FALSE,
                   m |-> i64(0), made |-> "no"]
    /\ DisjointIdle
    /\ SparseIdle
    /\ MapIdle

NextEstimate == CallEstimate \/ CallNewWithEstimate

SpecEstimate == InitEstimate /\ [][NextEstimate]_vars

\* a disjoint Set New(n), n = 1..DMaxNodes, under any sequence of calls
InitDisjoint ==
    /\ BloomIdle
    /\ RestIdle
    /\ QueueIdle
    /\ EstIdle
    /\ \E n \in 1..DMaxNodes :
         /\ ds = DisjointNew(n)
         /\ dsg = [i \in 0..(n - 1) |-> {i}]
    /\ dsu = 0
    /\ dsout = NoDCall
    /\ SparseIdle
    /\ MapIdle

NextDisjoint ==
    UnionCall \/ FindCall \/ SameCall \/ SizeCall \/ CountGroupsCall

SpecDisjoint == InitDisjoint /\ [][NextDisjoint]_vars

\* a sparse Set NewSet[E](capacity) under any sequence of calls
InitSparse ==
    /\ BloomIdle
    /\ RestIdle
    /\ QueueIdle
    /\ EstIdle
    /\ DisjointIdle
    /\ MapIdle
    /\ \E E \in ETypes, c \in SCaps : ss = NewSet(E, c)
    /\ ssm = {}
    /\ ssout = NoSCall

NextSparse == SetAdd \/ SetDel \/ SetHas \/ SetSwapCall \/ SetResetCall

SpecSparse == InitSparse /\ [][NextSparse]_vars

\* a sparse Map NewMap[E, T](capacity) under any sequence of calls
InitMap ==
    /\ BloomIdle
    /\ RestIdle
    /\ QueueIdle
    /\ EstIdle
    /\ DisjointIdle
    /\ SparseIdle
    /\ \E E \in ETypes, c \in SCaps : sm = NewMap(E, c)
    /\ smg = <<>>
    /\ smout = NoSCall

NextMap == MapSetCall \/ MapGetCall \/ MapDelCall

SpecMap == InitMap /\ [][NextMap]_vars

\* a sparse bit set New(n) under any sequence of Set, Flip and Reset calls
InitBits ==
    /\ BloomIdle
    /\ QueueIdle
    /\ PartsIdle
    /\ \E n \in BitsSizes : sb = BitsNew(n)
    /\ sbref = {}
    /\ SelectIdle
    /\ DigestIdle

NextBits == BitsSetCall \/ BitsFlipCall \/ BitsResetCall

SpecBits == InitBits /\ [][NextBits]_vars

\* a zero digest under any sequence of Writes of up to MhMaxBytes bytes
InitDigest ==
    /\ BloomIdle
    /\ QueueIdle
    /\ PartsIdle
    /\ BitsIdle
    /\ SelectIdle
    /\ DigestIdle

NextDigest == WriteCall

SpecDigest == InitDigest /\ [][NextDigest]_vars

\* Select(s, k) on every slice s of 1 to SelMaxLen elements of SelVals and
\* every k, 0 <= k < len(s); the call keeps running until it returns
InitSelect ==
    /\ BloomIdle
    /\ QueueIdle
    /\ PartsIdle
    /\ BitsIdle
    /\ DigestIdle
    /\ \E n \in 1..SelMaxLen : \E s \in [1..n -> SelVals], k \in 0..(n - 1) :
          sel = SelectStart(s, k)

NextSelect == SelectLoop \/ SelectPart

SpecSelect == InitSelect /\ [][NextSelect]_vars /\ WF_vars(NextSelect)

----------------------------------------------------------------------------
(* Properties of the bloom filter *)

AtRet(t, op) == th[t].op = op /\ th[t].pc = "ret"

AllIdle == \A t \in Threads : th[t].op = "idle"

\* the bits the keys of S set in word w of a filter of n words
keyBits(S, w, n) ==
    UNION {keymasks(y)[j] : <<y, j>> \in
             {p \in S \X (1..4) : keysectors(p[1], n)[p[2]] = w}}

\* every mask bit of x is a bit of some key of S
Covered(x, S, n) ==
    \A j \in 1..4 : keymasks(x)[j] \subseteq keyBits(S, keysectors(x, n)[j], n)

\* C1: a Test(x) invoked after an Add(x) or TestAndAdd(x) on the filter has
\* returned, returns true, whatever the other threads are doing (no Reset).
C1_NoFalseNegative ==
    \A t \in Threads : AtRet(t, "Test") /\ th[t].hb => th[t].res = TRUE

\* a Test(x) after a completed Add(x) has returned while another thread is in
\* the middle of writing the filter
C1_Witness ==
    \E t, u \in Threads :
        /\ AtRet(t, "Test") /\ th[t].hb /\ th[t].res
        /\ th[u].pc \in {"load", "cas", "read"}

\* the orders in which the keys of S can be added one after the other
Orders(S) ==
    {o \in [1..Cardinality(S) -> S] :
        \A a, b \in 1..Cardinality(S) : a # b => o[a] # o[b]}

WorkersDone == AllIdle /\ \A t \in Threads : todo[t] = {}

\* C2: when all workers have added their part of the keys, the shared filter
\* equals, word for word, a new filter to which the same keys were added one
\* after the other, in any order.
C2_OrderIndependent ==
    WorkersDone =>
        \A o \in Orders(begun["f"]) :
            filt["f"] = addAll(New(FilterBits), o)

\* every thread has added at least one key and all keys are in
C2_Witness ==
    /\ WorkersDone
    /\ \A t \in Threads : ncalls[t] >= 1
    /\ done["f"] = Keys

\* thread t's atomicSetBits call returns in this step
SetBitsReturns(t) ==
    /\ th[t].pc \in {"load", "cas"}
    /\ \/ th'[t].pc \in {"ret", "read"}
       \/ th'[t].pc = "load" /\ th'[t].i = th[t].i + 1

\* C3: atomicSetBits(s, z) returns the value the word held at the step it
\* returns in; either that value holds z and nothing is written, or the step
\* is the one compare-and-swap that succeeds and replaces it by old|z; the
\* word then holds z and every bit it held before.  A step of atomicSetBits
\* that does not return writes nothing.
C3_SetBitsAtomic ==
    [][\A t \in Threads :
        LET r   == th[t]
            s   == asbWord(r)
            z   == asbMask(r)
            cur == filt[r.f][s]
        IN  /\ SetBitsReturns(t) =>
                /\ r.op = "TestAndAdd" => th'[t].m[r.i] = cur
                /\ \/ z \subseteq cur /\ filt' = filt
                   \/ /\ ~(z \subseteq cur)
                      /\ r.pc = "cas" /\ r.old = cur
                      /\ filt' = [filt EXCEPT ![r.f][s] = cur \cup z]
                /\ z \subseteq filt'[r.f][s]
                /\ cur \subseteq filt'[r.f][s]
            /\ (r.pc \in {"load", "cas"} /\ th'[t] # r /\ ~SetBitsReturns(t))
                  => filt' = filt
      ]_vars

\* a TestAndAdd whose first atomicSetBits found bits of another key in the
\* word, added its own and kept the others
C3_Witness ==
    \E t \in Threads :
        LET r == th[t]
        IN  /\ r.op = "TestAndAdd" /\ r.i >= 2
            /\ r.m[1] # {}
            /\ ~(keymasks(r.x)[1] \subseteq r.m[1])
            /\ r.m[1] \cup keymasks(r.x)[1]
                  \subseteq filt[r.f][keysectors(r.x, len(r.f))[1]]

\* C4: under fair scheduling every call returns.
C4_EveryCallReturns ==
    \A t \in Threads : (th[t].op # "idle") ~> (th[t].op = "idle")

\* a thread whose compare-and-swap failed is back at the load of the word
\* it has already accessed
C4_Witness ==
    \E t \in Threads :
        /\ th[t].op \in {"Add", "TestAndAdd"}
        /\ th[t].pc = "load" /\ th[t].acc = "atomic cas"
        /\ keysectors(th[t].x, len(th[t].f))[th[t].i] \in th[t].ws

\* C5: Test puts in m the value each addressed word holds at the step that
\* loads it, and returns true iff every one of these values holds its mask:
\* a Test that loaded a word before its mask bits were there returns false.
C5_TestSeesLoadedWords ==
    [][\A t \in Threads :
        LET r == th[t]
            s == keysectors(r.x, len(r.f))
            z == keymasks(r.x)
        IN  (r.pc = "tload" /\ th'[t] # r) =>
              /\ th'[t].m[r.i] = filt[r.f][s[r.i]]
              /\ \A j \in 1..(r.i - 1) : th'[t].m[j] = r.m[j]
              /\ th'[t].pc = "ret" =>
                   (th'[t].res <=> \A j \in 1..4 : z[j] \subseteq th'[t].m[j])
      ]_vars

\* a Test(x) that ran while another thread was adding x saw some of the four
\* words with their mask and some without, and returned false
C5_Witness ==
    \E t, u \in Threads :
        /\ AtRet(t, "Test") /\ ~th[t].res
        /\ th[u].op \in {"Add", "TestAndAdd"} /\ th[u].x = th[t].x
        /\ th[u].f = th[t].f /\ th[u].pc \in {"load", "cas"}
        /\ \E j \in 1..4 : keymasks(th[t].x)[j] \subseteq th[t].m[j]
        /\ \E j \in 1..4 : ~(keymasks(th[t].x)[j] \subseteq th[t].m[j])

\* C6: every access a Filter method makes to a filter word is atomic.
C6_AllAccessesAtomic ==
    \A t \in Threads : th[t].acc # "plain read"

\* C7: with a single caller, TestAndAdd(x) returns what Test(x) returns in
\* the state before the call and leaves the filter as Add(x) leaves it.
C7_TestAndAddIsTestThenAdd ==
    AtRet(1, "TestAndAdd") =>
        /\ th[1].res = testIn(pre["f"], th[1].x)
        /\ filt["f"] = addTo(pre["f"], th[1].x)
        /\ filt["g"] = pre["g"]

\* a TestAndAdd on a filter that already held keys, which returned false and
\* changed the filter
C7_Witness ==
    /\ AtRet(1, "TestAndAdd") /\ ~th[1].res
    /\ pre["f"] # New(FilterBits)
    /\ filt["f"] # pre["f"]

\* C8 as stated: the first TestAndAdd(x) returns false, the later ones true.
C8_FirstFalseThenTrue ==
    AtRet(1, "TestAndAdd") => (th[1].res <=> th[1].hb)

\* C8 amended: with a single caller, the first TestAndAdd(x) returns false
\* unless the other keys added to the filter, or brought in by UnionWith,
\* have set every mask bit of x; every later TestAndAdd(x) returns true.
C8_FirstFalseUnlessCovered ==
    AtRet(1, "TestAndAdd") =>
        LET r == th[1]
        IN  IF r.hb THEN r.res
            ELSE r.res <=> Covered(r.x, (done["f"] \ {r.x}) \cup via["f"],
                                   len("f"))

\* the first TestAndAdd of a key returned true
C8_Witness ==
    AtRet(1, "TestAndAdd") /\ ~th[1].hb /\ th[1].res

\* C9 as stated: Test(x) returns false as long as no Add(x) or TestAndAdd(x)
\* has returned.
C9_FalseBeforeAdd ==
    \A t \in Threads :
        AtRet(t, "Test") /\ th[t].x \notin done["f"] => ~th[t].res

\* the keys whose bits calls that have begun may have put into F
MaybeIn(F) ==
    begun[F] \cup UNION {begun[G] : G \in ubegun[F]}

\* C9 amended: Test(x) returns false as long as the keys of the Add and
\* TestAndAdd calls that have begun on the filter, and on the filters united
\* into it, do not between them hold every mask bit of x.
C9_FalseUnlessCovered ==
    \A t \in Threads :
        AtRet(t, "Test") /\ ~Covered(th[t].x, MaybeIn("f"), len("f"))
            => ~th[t].res

\* a Test of a key that the keys present do not cover, on a filter that is
\* not empty
C9_Witness ==
    \E t \in Threads :
        /\ AtRet(t, "Test") /\ ~th[t].res
        /\ ~Covered(th[t].x, MaybeIn("f"), len("f"))
        /\ \E i \in DOMAIN filt["f"] : filt["f"][i] # {}

\* C10: each Pop returns the oldest element pushed and not yet popped, and
\* Pop finds the queue empty only when every pushed element has been popped.
C10_FIFO ==
    /\ qout.op = "Pop" => qout.want # 0 /\ qout.val = qout.want
    /\ qout.op = "panic" => qout.want = 0

\* C11: after every sequence of Push and Pop calls Len() is the number of
\* pushes minus the number of pops, it lies between 0 and Cap(), and Empty()
\* is true exactly when Len() is 0.
C11_LenCounts ==
    /\ QLen(q) = qn - qpops
    /\ 0 <= QLen(q) /\ QLen(q) <= Cap(q)
    /\ Empty(q) <=> QLen(q) = 0

\* C12: with a single caller, an Add(x) on a filter whose four addressed
\* words already hold their masks never reaches the compare-and-swap and
\* writes no word; an Add(x) that follows a completed Add(x) leaves the words
\* as they were, and every Add(x) leaves the words that one Add(x) on the
\* state before the call gives, which a further Add(x) does not change.
C12_AddIdempotent ==
    LET r == th[1]
    IN  r.op = "Add" =>
          /\ testIn(pre[r.f], r.x) =>
                r.pc # "cas" /\ r.acc # "atomic cas" /\ filt = pre
          /\ r.pc = "ret" =>
                /\ filt[r.f] = addTo(pre[r.f], r.x)
                /\ addTo(filt[r.f], r.x) = filt[r.f]
                /\ r.x \in done[r.f] => filt = pre

\* the second Add of a key returns, on a filter that holds other keys too
C12_Witness ==
    /\ AtRet(1, "Add") /\ th[1].x \in done[th[1].f]
    /\ done[th[1].f] # {th[1].x}
    /\ filt = pre

\* C13: on a filter made by New(m), m >= 0 (m = 0 included), no call of
\* Add, Test, TestAndAdd, Empty, Equal or Reset panics.
C13_NoFault ==
    \A t \in Threads :
        th[t].op \in KeyOps \cup {"Empty", "Equal", "Reset"}
            => th[t].pc # "panic"

\* C14: f.UnionWith(g) with len(f) # len(g) panics at the call: it makes no
\* memory access, and every word of f and of g is as it was before the call.
C14_UnionPanicsUnchanged ==
    \A t \in Threads :
        th[t].op = "UnionWith" /\ len("f") # len("g") =>
            /\ th[t].pc = "panic"
            /\ th[t].acc = "none"
            /\ filt = pre

\* a UnionWith of a filter of one block that holds a key with a filter of
\* two blocks has panicked
C14_Witness ==
    \E t \in Threads :
        /\ th[t].op = "UnionWith" /\ th[t].pc = "panic"
        /\ 0 < len("f") /\ len("f") < len("g")
        /\ \E i \in DOMAIN filt["f"] : filt["f"][i] # {}

\* C15: with a single caller and filters of equal length, when f.UnionWith(g)
\* returns every word of f is the OR of what it was and the word of g, g is
\* unchanged, and every key that tested true on f or on g before the call
\* tests true on f.
C15_UnionIsWordwiseOr ==
    AtRet(1, "UnionWith") =>
        /\ \A i \in DOMAIN filt["f"] :
               filt["f"][i] = pre["f"][i] \cup pre["g"][i]
        /\ filt["g"] = pre["g"]
        /\ \A x \in keys :
               testIn(pre["f"], x) \/ testIn(pre["g"], x)
                   => testIn(filt["f"], x)

\* a union of two filters that held different keys: f has gained a key of g
\* and kept its own
C15_Witness ==
    /\ AtRet(1, "UnionWith")
    /\ \E x, y \in keys :
          /\ testIn(pre["f"], x) /\ ~testIn(pre["g"], x)
          /\ testIn(pre["g"], y) /\ ~testIn(pre["f"], y)
          /\ testIn(filt["f"], x) /\ testIn(filt["f"], y)

\* C16: with a single caller, F.Equal(G) returns true exactly when F and G
\* have the same number of words and every word of F equals the word of G
\* at the same index: it is true when F and G are the same filter, false
\* when the lengths differ, and G.Equal(F) called next returns the same.
C16_EqualIsWordEquality ==
    AtRet(1, "Equal") =>
        LET r == th[1]
        IN  /\ r.res <=> /\ len(r.f) = len(r.g)
                          /\ \A i \in DOMAIN filt[r.f] :
                                 filt[r.f][i] = filt[r.g][i]
            /\ r.f = r.g => r.res
            /\ len(r.f) # len(r.g) => ~r.res
            /\ (lastcall.op = "Equal" /\ lastcall.f = r.g /\ lastcall.g = r.f)
                  => r.res = lastcall.res

\* Equal of two all-zero filters of different lengths has returned false
\* after Equal the other way round returned false
C16_Witness ==
    /\ AtRet(1, "Equal") /\ ~th[1].res
    /\ len(th[1].f) # len(th[1].g) /\ len(th[1].f) > 0 /\ len(th[1].g) > 0
    /\ \A F \in FilterIds : \A i \in DOMAIN filt[F] : filt[F][i] = {}
    /\ lastcall.op = "Equal" /\ lastcall.f = th[1].g /\ lastcall.g = th[1].f

\* the one bits of filter f, as pairs of word index and bit position
oneBits(f) == UNION {{<<i, b>> : b \in f[i]} : i \in DOMAIN f}

\* the filter has no bit set
AllZero(f) == \A i \in DOMAIN f : f[i] = {}

\* C17 as stated: each of the four masks of a key has exactly 2 bits set, and
\* an Add into an empty filter sets exactly 8 bits.
C17_TwoBitsPerMask ==
    LET r == th[1]
    IN  r.op \in KeyOps =>
          /\ \A j \in 1..4 : Cardinality(keymasks(r.x)[j]) = 2
          /\ (r.op = "Add" /\ r.pc = "ret" /\ AllZero(pre[r.f]))
                => Cardinality(oneBits(filt[r.f])) = 8

\* C17 amended: each of the four masks of a key has 2 bits set, within bits
\* 0..63, unless its two bit offsets coincide, and then it has 1; an Add
\* into an empty filter sets the bits of the four masks, between 4 and 8
\* bits in 4 words, and 8 when no two offsets coincide.
C17_OneOrTwoBitsPerMask ==
    LET r == th[1]
        z == keymasks(r.x)
        h == splithash(r.x)
        n == Cardinality(oneBits(filt[r.f]))
    IN  r.op \in KeyOps =>
          /\ \A j \in 1..4 :
                /\ z[j] \subseteq 0..63
                /\ Cardinality(z[j]) =
                      IF bitoff(h.h0, h.h1, 2 * j - 1) = bitoff(h.h0, h.h1, 2 * j)
                        THEN 1 ELSE 2
          /\ (r.op = "Add" /\ r.pc = "ret" /\ AllZero(pre[r.f])) =>
                /\ n = Cardinality(z[1]) + Cardinality(z[2])
                        + Cardinality(z[3]) + Cardinality(z[4])
                /\ 4 <= n /\ n <= 8
                /\ Cardinality({p[1] : p \in oneBits(filt[r.f])}) = 4
                /\ (\A j \in 1..4 : Cardinality(z[j]) = 2) => n = 8

\* an Add into an empty filter has set 8 bits
C17_Witness ==
    /\ AtRet(1, "Add") /\ AllZero(pre[th[1].f])
    /\ Cardinality(oneBits(filt[th[1].f])) = 8

\* C18: with a single caller, on a filter of N words, Add(x), Test(x) and
\* TestAndAdd(x) access only words of the block of 8 words that starts at
\* base = (low32(x) mod N) with its low 3 bits cleared, all below N, and at
\* most one in each sector {base+2j, base+2j+1}; when the call returns it has
\* accessed exactly 4 words, one in each sector.  No word the call has not
\* accessed differs from before the call; Test changes no word, and Add and
\* TestAndAdd leave each of the 4 words OR-ed with the mask of its sector.
C18_BlockLocal ==
    LET r    == th[1]
        N    == len(r.f)
        base == mod32(r.x.lo, N) - (mod32(r.x.lo, N) % 8)
        z    == keymasks(r.x)
    IN  (r.op \in KeyOps /\ r.pc # "panic") =>
          /\ N % 8 = 0 /\ base % 8 = 0
          /\ \A w \in r.ws : 0 <= w /\ w < N /\ base <= w /\ w < base + 8
          /\ \A j \in 0..3 :
                Cardinality(r.ws \cap {base + 2 * j, base + 2 * j + 1}) <= 1
          /\ \A F \in FilterIds : \A i \in DOMAIN filt[F] :
                (F # r.f \/ i \notin r.ws) => filt[F][i] = pre[F][i]
          /\ r.op = "Test" => filt = pre
          /\ r.pc = "ret" =>
                /\ Cardinality(r.ws) = 4
                /\ \A j \in 0..3 :
                      Cardinality(r.ws \cap {base + 2 * j, base + 2 * j + 1}) = 1
                /\ r.op # "Test" =>
                      \A w \in r.ws :
                          filt[r.f][w] =
                              pre[r.f][w] \cup z[((w - base) \div 2) + 1]

\* a TestAndAdd in the second block of a filter of two blocks that already
\* held a key has returned and has changed the filter
C18_Witness ==
    /\ AtRet(1, "TestAndAdd")
    /\ \A w \in th[1].ws : w >= 8
    /\ ~AllZero(pre[th[1].f])
    /\ filt # pre

\* what the next Pops return, until the queue is empty (at most k of them)
RECURSIVE drain(_, _)
drain(qq, k) ==
    IF Empty(qq) \/ k = 0 THEN <<>>
    ELSE <<qq.elem[index(qq, qq.tail) + 1]>>
           \o drain([qq EXCEPT !.tail = wraparound(qq, qq.tail + 1)], k - 1)

\* C19: Grow(n), n >= 0, leaves Len() and the results of the Pops that
\* follow as they were, and afterwards Cap() - Len() >= n.
C19_GrowKeepsElements ==
    [][GrowCall =>
         /\ QLen(q') = QLen(q)
         /\ drain(q', 2 * Cap(q') + 1) = drain(q, 2 * Cap(q) + 1)
         /\ Cap(q') - QLen(q') >= qout'.val
      ]_vars

\* C20: the filter New(m) returns, m >= 0, has all words zero, and its
\* Bits() is the smallest multiple of 512 that is >= m.
C20_NewRoundsUp ==
    \A F \in FilterIds :
        /\ Bits(F) % 512 = 0
        /\ msize[F] <= Bits(F) /\ Bits(F) < msize[F] + 512
        /\ \A k \in 0..(Bits(F) \div 512) :
               k * 512 >= msize[F] => k * 512 >= Bits(F)
        /\ (\A t \in Threads : ncalls[t] = 0) => AllZero(filt[F])

\* New(m) for an m that is more than one block and not a multiple of 512
\* has returned a filter of two blocks, on which no call has been made yet
C20_Witness ==
    /\ msize["f"] > 512 /\ msize["f"] % 512 # 0
    /\ Bits("f") = 1024
    /\ \A t \in Threads : ncalls[t] = 0

\* C21: a filter made by New has a number of words that is a multiple of 8,
\* and no operation on it (Add, Test, TestAndAdd, UnionWith, Reset, Equal,
\* Empty, Len) changes that number: Bits() is the same in every state.
C21_WordsFixed ==
    /\ [](\A F \in FilterIds : len(F) % 8 = 0)
    /\ [][\A F \in FilterIds :
              /\ DOMAIN filt'[F] = DOMAIN filt[F]
              /\ Bits(F)' = Bits(F)]_vars

\* a filter made by New(1), of 8 words, has had keys added and a UnionWith
\* of the other filter, itself of 8 words and not empty, has just returned
C21_Witness ==
    /\ msize["f"] = 1 /\ len("f") = 8 /\ Bits("f") = 512
    /\ lastcall.op = "UnionWith"
    /\ ~AllZero(filt["g"])
    /\ filt["f"] = filt["g"]

\* C22: with a single caller, Empty() returns true iff every word of the
\* filter is zero; it returns true on a filter New has just made and as the
\* first call after a Reset, and false once an Add or a TestAndAdd of any
\* key has returned and no Reset has returned since.
C22_EmptyIffAllZero ==
    AtRet(1, "Empty") =>
        /\ th[1].res <=> AllZero(filt["f"])
        /\ lastcall.op = "none" => th[1].res
        /\ (lastcall.op = "Reset" /\ lastcall.f = "f") => th[1].res
        /\ done["f"] # {} => ~th[1].res

\* Empty is about to return false on a filter of two blocks whose first
\* block is all zero: the key that was added lies in the second block
C22_Witness ==
    /\ AtRet(1, "Empty") /\ ~th[1].res
    /\ len("f") = 16
    /\ done["f"] # {}
    /\ \A i \in 0..7 : filt["f"][i] = {}

\* block b of filter F has all 512 bits set
Saturated(F, b) == \A w \in 0..7 : filt[F][8 * b + w] = 0..63

Blocks(F) == 0..((len(F) \div 8) - 1)

\* the number of one bits in block b of filter F
RECURSIVE blockOnes(_, _, _)
blockOnes(F, b, w) ==
    IF w = 0 THEN 0
             ELSE blockOnes(F, b, w - 1) + Cardinality(filt[F][8 * b + w - 1])

\* -S * 10^6, S the sum of ln(1 - ones/512) over the first k blocks of F that
\* are not empty; no block is saturated
RECURSIVE lnSum(_, _)
lnSum(F, k) ==
    IF k = 0 THEN 0
    ELSE lnSum(F, k - 1)
           + (IF blockOnes(F, k - 1, 8) = 0
                THEN 0 ELSE Log1pTable[blockOnes(F, k - 1, 8)])

C24_LenRounds ==
    (/\ AtRet(1, "Len")
     /\ \A b \in Blocks("f") : ~Saturated("f", b)) =>
        /\ ~th[1].len.max
        /\ th[1].len.val
             = (64 * lnSum("f", len("f") \div 8) + (Micro \div 2)) \div Micro

\* C25: for every n > 0 and 0 < p < 1, Estimate(n, p) is a positive multiple
\* of 512 and NewWithEstimate(n, p).Bits() == Estimate(n, p).
C25_EstimatePositiveMultiple ==
    /\ est.called =>
          /\ ~negative64(est.m) /\ est.m # i64(0)
          /\ est.m[4] % 512 = 0
    /\ est.made # "panic"
    /\ est.made = "yes" =>
          i64(Bits("f")) = Estimate(est.n, est.p, est.conv)

\* C25, for the n and p whose math.Ceil(n * math.Log(p) / c) is at most
\* math.MaxInt - 511: Estimate(n, p) is a positive multiple of 512 and
\* NewWithEstimate(n, p).Bits() == Estimate(n, p).
C25_EstimateInRange ==
    ceilBits(est.n, est.p).fits =>
        /\ est.called =>
              /\ ~negative64(est.m) /\ est.m # i64(0)
              /\ est.m[4] % 512 = 0
        /\ est.made # "panic"
        /\ est.made = "yes" =>
              i64(Bits("f")) = Estimate(est.n, est.p, est.conv)

\* Estimate(36, 0.001) has returned 1024, one more block than the 518 bits
\* fill, and NewWithEstimate(36, 0.001) has returned a filter
C25_Witness ==
    /\ est.n = [max |-> FALSE, v |-> 36] /\ est.p = "0.001"
    /\ est.called /\ est.m = i64(1024)
    /\ est.made = "yes" /\ Bits("f") = 1024

----------------------------------------------------------------------------
(* Properties of the disjoint Set *)

Nodes == DOMAIN ds

\* the nodes j for which s.Same(i, j) is true
group(s, i) == {j \in DOMAIN s : Same(s, i, j).res}

\* the sum of Size(r) over one node r of every group: the nodes that are
\* their own Find
RECURSIVE sumSizes(_, _)
sumSizes(s, k) ==
    IF k = 0 THEN 0
    ELSE sumSizes(s, k - 1)
           + (IF Find(s, k - 1).root = k - 1 THEN Size(s, k - 1).val ELSE 0)

\* C26: Union(i, j) returns true iff i and j were in different groups
\* before the call; after it Same(i, j) is true, and every node outside the
\* two merged groups has the group it had.
C26_UnionMerges ==
    dsout.op = "Union" =>
        /\ dsout.ok <=> dsout.preg[dsout.i] # dsout.preg[dsout.j]
        /\ dsout.ok <=> ~Same(dsout.pre, dsout.i, dsout.j).res
        /\ Same(ds, dsout.i, dsout.j).res
        /\ \A a \in Nodes \ (dsout.preg[dsout.i] \cup dsout.preg[dsout.j]) :
               /\ group(ds, a) = group(dsout.pre, a)
               /\ group(ds, a) = dsout.preg[a]

\* a Union has just merged a group of two nodes or more with another
\* group and has left a node outside
C26_Witness ==
    /\ dsout.op = "Union" /\ dsout.ok
    /\ Cardinality(dsout.preg[dsout.i]) >= 2
    /\ Nodes \ dsg[dsout.i] # {}

\* C27: after every sequence of Union, Find, Same and Size calls on a Set
\* of n singleton groups, Size(i) is the number of nodes j with Same(i, j),
\* the sizes of the groups sum to Len() = n, and CountGroups() is n minus
\* the number of Unions that returned true.
C27_SizesAndGroups ==
    /\ \A i \in Nodes :
          /\ Size(ds, i).val = Cardinality(group(ds, i))
          /\ group(ds, i) = dsg[i]
    /\ sumSizes(ds, DisjointLen(ds)) = DisjointLen(ds)
    /\ CountGroups(ds) = DisjointLen(ds) - dsu
    /\ dsout.op = "Size" => dsout.val = Cardinality(dsg[dsout.i])
    /\ dsout.op = "CountGroups" => dsout.val = DisjointLen(ds) - dsu

\* Size has just returned 3 after two Unions that returned true, on a node
\* that is not the root of its group
C27_Witness ==
    /\ dsout.op = "Size" /\ dsout.val = 3
    /\ dsu = 2
    /\ ds[dsout.i] <= 0
    /\ DisjointLen(ds) = 4

\* C28: after Union(i, j) returns true, Find of every member of the merged
\* group is the former root of the group that was strictly larger, and the
\* former root of j's group when the two groups had the same size.
C28_SmallerIntoLarger ==
    (dsout.op = "Union" /\ dsout.ok) =>
        LET pi == Find(dsout.pre, dsout.i).root
            pj == Find(dsout.pre, dsout.j).root
            want == IF dsout.pre[pi] > dsout.pre[pj] THEN pi ELSE pj
        IN  \A a \in dsout.preg[dsout.i] \cup dsout.preg[dsout.j] :
                Find(ds, a).root = want

\* a Union has just merged two groups of two nodes each
C28_Witness ==
    /\ dsout.op = "Union" /\ dsout.ok
    /\ Cardinality(dsout.preg[dsout.i]) = 2
    /\ Cardinality(dsout.preg[dsout.j]) = 2

----------------------------------------------------------------------------
(* Properties of the sparse Set and Map *)

\* C29: after every sequence of Add, Del, Swap and Reset calls on a sparse
\* Set with keys k >= 0, Has(k), k < Cap(), is true iff k was added and not
\* deleted or reset since; Len() is the number of such members; Keys()
\* holds each member exactly once; sparse[dense[i]] == i for every
\* i < Len().
C29_SetInvariants ==
    /\ SRunning
    /\ \A k \in 0..(SetCap(ss) - 1) :
          Has(ss, k) = [res |-> k \in ssm, panic |-> FALSE]
    /\ SetLen(ss) = Cardinality(ssm)
    /\ {SetKeys(ss)[i] : i \in 1..SetLen(ss)} = ssm
    /\ \A i \in 0..(SetLen(ss) - 1) : ss.sparse[ss.dense[i + 1]] = i

\* C30: after m.Set(k, v) returns, m.Get(k) returns (v, true), whether or
\* not k was a member of the map before the call.
C30_SetThenGet ==
    smout.op = "Set" =>
        MapGet(sm, smout.k) = [v |-> smout.v, exists |-> TRUE,
                               panic |-> FALSE]

----------------------------------------------------------------------------
(* Properties of the addressing (2) *)

\* the addressing in integer arithmetic on the 16-bit halves hi, lo of h0
\* and h1: bit 31 of ((j+1)*h1 mod 2^32), o(i) and the block base
refBit31(x, j) ==
    (((j + 1) * x.hi[1] + (((j + 1) * x.hi[2]) \div 65536)) % 65536) \div 32768

refOffset(x, i) ==
    (x.lo[1] + i * x.hi[1] + ((x.lo[2] + i * x.hi[2]) \div 65536)) % 64

refBase(x, N) ==
    LET r == ((x.lo[1] % N) * (65536 % N) + x.lo[2]) % N
    IN  8 * (r \div 8)

refSector(x, N, j) == refBase(x, N) + 2 * j + refBit31(x, j)

refMask(x, j) == {refOffset(x, 2 * j + 1), refOffset(x, 2 * j + 2)}

\* C38: with h0 = low32(x), h1 = high32(x) and N the length of the filter,
\* the sector index s_j is base + 2j + bit 31 of ((j+1)*h1 mod 2^32),
\* j = 0..3, and the mask z_j is (1 << o(2j+1)) | (1 << o(2j+2)) with
\* o(i) = (((h0 + i*h1) mod 2^32) >> 16) & 63; Add, Test and TestAndAdd
\* access word s_j with mask z_j in slot j, and no other word: Add and
\* TestAndAdd leave z_j in word s_j, and Test and TestAndAdd report whether
\* every word s_j held z_j before.
C38_Addressing ==
    LET r == th[1]
        N == len(r.f)
    IN  (r.op \in KeyOps /\ r.pc # "panic") =>
          /\ \A j \in 0..3 :
                /\ r.s[j + 1] = refSector(r.x, N, j)
                /\ keymasks(r.x)[j + 1] = refMask(r.x, j)
          /\ r.pc \in {"load", "cas", "tload"} =>
                /\ r.ws \subseteq {refSector(r.x, N, j) : j \in 0..(r.i - 1)}
                /\ {refSector(r.x, N, j) : j \in 0..(r.i - 2)} \subseteq r.ws
          /\ r.pc = "cas" => asbMask(r) = refMask(r.x, r.i - 1)
          /\ r.pc = "ret" =>
                /\ r.ws = {refSector(r.x, N, j) : j \in 0..3}
                /\ r.op # "Test" =>
                      \A j \in 0..3 :
                          filt[r.f][refSector(r.x, N, j)] =
                              pre[r.f][refSector(r.x, N, j)] \cup refMask(r.x, j)
                /\ r.op # "Add" =>
                      r.res = (\A j \in 0..3 :
                                 refMask(r.x, j) \subseteq
                                     pre[r.f][refSector(r.x, N, j)])

\* a TestAndAdd of a key whose sectors take the odd word in some slots and
\* the even word in others, in the second block, has returned
C38_Witness ==
    /\ AtRet(1, "TestAndAdd")
    /\ \E w \in th[1].ws : w >= 8 /\ w % 2 = 1
    /\ \E w \in th[1].ws : w % 2 = 0
    /\ \E j \in 0..3 : Cardinality(refMask(th[1].x, j)) = 2

----------------------------------------------------------------------------
(* Properties of runs without Reset *)

\* C36: in an execution without Reset, under any interleaving of Add,
\* TestAndAdd, UnionWith, Test, Empty, Equal and Len, every step leaves
\* every word of every filter with all the bits it had (old & new == old);
\* hence a key that Test would report stays reported: a Test that returns
\* true leaves the filter holding every bit of its key, and a Test called
\* on a filter that holds every bit of its key returns true.
C36_OnlyGains ==
    [][/\ \A F \in FilterIds : \A i \in DOMAIN filt[F] :
              filt[F][i] \subseteq filt'[F][i]
       /\ \A x \in keys : testIn(filt["f"], x) => testIn(filt'["f"], x)
       /\ \A t \in Threads :
              (th'[t].op = "Test" /\ th'[t].pc = "ret") =>
                  /\ th'[t].res => testIn(filt'["f"], th'[t].x)
                  /\ th'[t].cov => th'[t].res
      ]_vars

\* a Test called on a filter that held its key has returned true while
\* another thread is between the load and the compare-and-swap of a word,
\* and a scan of the words has begun
C36_Witness ==
    /\ AtRet(1, "Test") /\ th[1].cov /\ th[1].res
    /\ th[2].pc = "cas"
    /\ th[2].op \in {"Add", "TestAndAdd", "UnionWith"}

\* C37: when every thread has called TestAndAdd(x) for the same key x on a
\* filter in which Test(x) was false, and no other operation runs, at least
\* one of the calls returns false.
C37_OneReportsAbsent ==
    (\A t \in Threads : AtRet(t, "TestAndAdd")) =>
        \E t \in Threads : ~th[t].res

\* all calls have their result and one of them reports the key present, on
\* a filter that held some of the bits of the key before the calls
C37_Witness ==
    /\ \A t \in Threads : AtRet(t, "TestAndAdd")
    /\ \E t \in Threads : th[t].res
    /\ ~AllZero(pre["f"])

\* C35: a Reset that runs with no concurrent writer leaves every word of
\* the filter zero.  Reset is not atomic as a whole: C35_Witness is
\* reachable, an interleaving of one Reset() and one Add(x) on the same
\* filter after which both calls are complete, the filter is not empty and
\* Test(x) is false.
C35_ResetAloneClears ==
    \A t \in Threads :
        (AtRet(t, "Reset") /\ \A u \in Threads \ {t} : ncalls[u] = 0) =>
            AllZero(filt["f"])

\* one Reset and one Add(x) on f are complete; f is not empty and a Test(x)
\* would return false
C35_Witness ==
    \E t, u \in Threads :
        /\ AtRet(t, "Reset") /\ AtRet(u, "Add") /\ th[u].f = "f"
        /\ ~AllZero(filt["f"])
        /\ ~testIn(filt["f"], th[u].x)

----------------------------------------------------------------------------
(* Lock-freedom of atomicSetBits *)

\* thread t is between the load and the compare-and-swap of atomicSetBits
InCAS(t) == th[t].pc = "cas"

\* the word of the atomicSetBits call thread t is in
casWord(t) == filt[th[t].f][asbWord(th[t])]

\* C34: the load of atomicSetBits reads the word as it is; while a thread
\* is between its load and its compare-and-swap, every change of the word
\* is a write (compare-and-swap or store) of another thread; and the
\* compare-and-swap fails only if the word differs from the value loaded,
\* so a failed compare-and-swap means that another thread's write to the
\* word took effect in between.  A thread suspended for ever at any point
\* of a call never keeps the calls of the other threads from returning.
C34_LockFree ==
    /\ [][\A t \in Threads :
            /\ (th[t].pc = "load" /\ th'[t].pc = "cas") =>
                   th'[t].old = casWord(t)
            /\ (InCAS(t) /\ th'[t] = th[t] /\ casWord(t)' # casWord(t)) =>
                   \E u \in Threads \ {t} :
                       /\ th'[u] # th[u]
                       /\ th'[u].acc \in {"atomic cas", "atomic store"}
            /\ (InCAS(t) /\ th'[t] # th[t] /\ th'[t].pc = "load"
                   /\ th'[t].i = th[t].i /\ th'[t].acc = "atomic cas"
                   /\ filt' = filt) =>
                   /\ casWord(t) # th[t].old
                   /\ th'[t].ws = th[t].ws
           ]_vars
    /\ \A t \in Threads \ {1} : (th[t].op # "idle") ~> (th[t].op = "idle")

\* thread 1 is in the middle of an Add, TestAndAdd or UnionWith and thread
\* 2 is about to fail its compare-and-swap: the word is no longer what it
\* loaded
C34_Witness ==
    /\ th[1].op \in {"Add", "TestAndAdd", "UnionWith"}
    /\ th[1].pc \in {"load", "cas", "read"}
    /\ InCAS(2) /\ casWord(2) # th[2].old

----------------------------------------------------------------------------
(* Properties of the disjoint Set (2) *)

\* following the links from node i reaches a root (a positive entry) in at
\* most k links
RECURSIVE reachesRoot(_, _, _)
reachesRoot(s, i, k) ==
    IF s[i] > 0 THEN TRUE
    ELSE IF k = 0 THEN FALSE
    ELSE (-s[i]) \in DOMAIN s /\ reachesRoot(s, -s[i], k - 1)

\* no chain of links visits a node twice
Acyclic(s) == \A i \in DOMAIN s : reachesRoot(s, i, Cardinality(DOMAIN s) - 1)

\* what Same, Size and CountGroups return on s
answers(s) ==
    [same   |-> [i \in DOMAIN s |-> [j \in DOMAIN s |-> Same(s, i, j).res]],
     size   |-> [i \in DOMAIN s |-> Size(s, i).val],
     groups |-> CountGroups(s),
     root   |-> [i \in DOMAIN s |-> Find(s, i).root]]

\* C39: in every state of a Set reachable from New(n) by Union, Find, Same
\* and Size calls, following links from any node reaches a root without
\* visiting a node twice, so no call has panicked and no Find would; and
\* path compression changes no node's root: Same, Size and CountGroups (and
\* Find itself) give the same results after any Find as before it.
C39_FindKeepsRoots ==
    /\ Acyclic(ds)
    /\ Acyclic(ds) =>
          /\ DRunning
          /\ \A i \in Nodes :
                /\ ~Find(ds, i).panic
                /\ Acyclic(Find(ds, i).s)
                /\ Acyclic(Find(ds, i).s) =>
                       answers(Find(ds, i).s) = answers(ds)
          /\ (dsout.op \in {"Find", "Same", "Size"} /\ Acyclic(dsout.pre)) =>
                answers(ds) = answers(dsout.pre)

\* a Find has just compressed a path: it has changed a link
C39_Witness ==
    /\ dsout.op = "Find" /\ ds # dsout.pre
    /\ ds[dsout.i] = -dsout.val
    /\ dsout.pre[dsout.i] <= 0 /\ dsout.pre[-dsout.pre[dsout.i]] <= 0

----------------------------------------------------------------------------
(* Properties of the sparse bit set *)

\* C31: after every sequence of Set(i, b), Flip(i) and Reset() calls with
\* 0 <= i < Len() on a sparse bit set, no call has panicked, Get(i) equals
\* the i-th bit of a plain reference bit array subjected to the same
\* operations, and OnesCount() equals the number of one bits of that
\* reference.
C31_MatchesReference ==
    /\ ~sb.panic
    /\ \A i \in BitsIdx :
          i < BitsLen(sb) =>
              BitsGet(sb, i) = [res |-> i \in sbref, panic |-> FALSE]
    /\ OnesCount(sb) = [count |-> Cardinality(sbref), panic |-> FALSE]

\* a set of 512 bits holds bits in both halves, and a pair of words that
\* was allocated holds no bit any more
C31_Witness ==
    /\ BitsLen(sb) = 512
    /\ \E i, j \in sbref : i < 256 /\ j >= 256
    /\ \E a \in 1..Len(sb.dat) :
          a > 2 /\ a % 2 = 1 /\ sb.dat[a] = {} /\ sb.dat[a + 1] = {}

----------------------------------------------------------------------------
(* Properties of Select *)

\* the number of elements of s that satisfy the test
countIn(s, Test(_)) == Cardinality({a \in 1..Len(s) : Test(s[a])})

\* C32: for every non-empty slice s, also with duplicate elements, and
\* every 0 <= k < len(s), Select(s, k) terminates, returns the k-th
\* smallest element of s, and leaves s a permutation of its input with
\* s[k] equal to the returned value.
C32_SelectReturnsKth ==
    /\ <>(sel.pc = "done")
    /\ [](sel.pc = "done" =>
            /\ LET below(v) == v < sel.ret
                   upto(v)  == v <= sel.ret
               IN  /\ countIn(sel.input, below) <= sel.k
                   /\ sel.k < countIn(sel.input, upto)
            /\ \A v \in SelVals :
                  LET is(w) == w = v
                  IN  countIn(sel.s, is) = countIn(sel.input, is)
            /\ sel.s[sel.k + 1] = sel.ret)

----------------------------------------------------------------------------
(* Properties of the murmurhash3 digest *)

\* C33: for every way of splitting a byte string into the chunks of
\* successive Write calls, Sum and Sum64 of the digest are those of one
\* Write of the whole string; after every Write head is at most 15.
C33_ChunksGiveSameSum ==
    /\ mh.head <= 15
    /\ mh.n = Len(mhin)
    /\ Sum(mh) = SumOf(mhin)
    /\ Sum64(mh) = Sum64Of(mhin)

\* more than two blocks have been written, not all at once; the last Write
\* found bytes buffered, filled the buffered block, mixed another whole
\* block and left bytes buffered
C33_Witness ==
    /\ Len(mhin) > 32 /\ mhout.len < Len(mhin)
    /\ (Len(mhin) - mhout.len) % 16 # 0
    /\ mhout.len >= 32 - ((Len(mhin) - mhout.len) % 16)
    /\ mh.head > 0

\* C40: every Write(p) on a digest returns len(p), whatever number of
\* bytes is buffered from earlier writes.
C40_WriteReturnsLen ==
    mhout.ret = mhout.len

====
